---- MODULE Spec2Model ----
(***************************************************************************)
(* A model of the physics / sampling core of the orbital visualiser:       *)
(* radialWaveFunction.js, sphericalHarmonics.js, probabilityDensity.js and *)
(* orbitalSampler.js (the second and the last are in unnamed/part_001).    *)
(*                                                                         *)
(* Numbers.  JavaScript doubles are modelled by exact rationals <<p, q>>   *)
(* (q > 0, lowest terms).  Math.sqrt is never approximated: a value that   *)
(* is a square root times a rational is kept as the pair (radicand s,      *)
(* factor q).  Math.exp is never approximated in a value either: a value   *)
(* c * exp(e) is kept as the pair (c, e); only the comparisons `<` and `>` *)
(* of two such values evaluate the exponential (ExpApprox).  Math.PI is    *)
(* the rational PI.  Angles are kept by what the code reads from them:     *)
(* theta by its cosine, phi as a multiple of pi.                           *)
(***************************************************************************)
EXTENDS Integers, Sequences, FiniteSets, TLC

VARIABLES
    factorialCache,   \* radialWaveFunction.js:20, entry i at position i+1
    fn,               \* the pure function called last (SpecFn)
    fargs,            \* its arguments
    fret,             \* its return value
    fwarn,            \* the console.warn messages that call emitted
    pc,               \* sampleOrbital: "idle", "estimate", "loop", "done"
    orb,              \* sampleOrbital's arguments n, l, m, Z
    numPoints,        \* sampleOrbital's argument numPoints
    maxP,             \* the working ceiling
    pointIndex,       \* write index into points
    attempts,         \* candidates tried so far
    points,           \* the Float32Array's written prefix, one number per entry
    returned,         \* the buffer sampleOrbital returned
    console,          \* the console.warn messages sampleOrbital itself emitted
    warned,           \* the distinct wave-function warnings of the current call
    accepted,         \* history: the candidates accepted, in order
    lastTry,          \* history: the Math.random() values of the last attempt
    maxProbabilityCache,  \* probabilityDensity.js:89, key -> stored value
    estimated,        \* history: the last getMaxProbability ran findMaxProbability
    batch,            \* sampleMultipleOrbitals / sampleSubshell: the call running
    results,          \* its results so far, in insertion order
    atom,             \* the AtomState instance: its four fields
    atomLog,          \* history: the last call on it and whom it notified
    renderer,         \* the ElectronCloudRenderer instance and its meshes
    legend,           \* OrbitalLegend.visibility
    controls          \* VisualizationControls.settings

vars == <<factorialCache, fn, fargs, fret, fwarn, pc, orb, numPoints, maxP,
          pointIndex, attempts, points, returned, console, warned, accepted,
          lastTry, maxProbabilityCache, estimated, batch, results, atom,
          atomLog, renderer, legend, controls>>

fnVars == <<fn, fargs, fret, fwarn>>
samplerVars == <<pc, orb, numPoints, maxP, pointIndex, attempts, points,
                 returned, console, warned, accepted>>
cacheVars == <<maxProbabilityCache, estimated>>
batchVars == <<batch, results>>
uiVars == <<atom, atomLog, renderer, legend, controls>>

(***************************************************************************)
(* Exact rational arithmetic                                               *)
(***************************************************************************)
Abs(a) == IF a < 0 THEN -a ELSE a

RECURSIVE GCD(_, _)
GCD(a, b) == IF b = 0 THEN a ELSE GCD(b, a % b)

Rat(p, q) ==
    LET g == GCD(Abs(p), Abs(q))
        s == IF q < 0 THEN -1 ELSE 1
    IN  IF p = 0 THEN <<0, 1>> ELSE <<(s * p) \div g, (s * q) \div g>>

RInt(k) == <<k, 1>>
R0 == RInt(0)
R1 == RInt(1)

RNeg(a) == <<-a[1], a[2]>>

RMul(a, b) ==
    IF a[1] = 0 \/ b[1] = 0 THEN R0
    ELSE LET g1 == GCD(Abs(a[1]), b[2])
             g2 == GCD(Abs(b[1]), a[2])
         IN  <<(a[1] \div g1) * (b[1] \div g2), (a[2] \div g2) * (b[2] \div g1)>>

RInv(a) == IF a[1] < 0 THEN <<-a[2], -a[1]>> ELSE <<a[2], a[1]>>

RDiv(a, b) == RMul(a, RInv(b))

RAdd(a, b) ==
    LET g == GCD(a[2], b[2])
    IN  Rat(a[1] * (b[2] \div g) + b[1] * (a[2] \div g), (a[2] \div g) * b[2])

RSub(a, b) == RAdd(a, RNeg(b))

RLess(a, b) ==
    LET g == GCD(a[2], b[2])
        h == GCD(Abs(a[1]), Abs(b[1]))
    IN  IF h = 0 THEN FALSE
        ELSE (a[1] \div h) * (b[2] \div g) < (b[1] \div h) * (a[2] \div g)

RMin(a, b) == IF RLess(b, a) THEN b ELSE a
RMax(a, b) == IF RLess(a, b) THEN b ELSE a

RECURSIVE RPow(_, _)
RPow(a, k) == IF k <= 0 THEN R1 ELSE RMul(a, RPow(a, k - 1))

\* Math.sqrt and Math.pow(u, 1/3) on the perfect squares and cubes of the grids
ISqrt(k) == CHOOSE j \in 0..k : j * j = k
RSqrt(a) == <<ISqrt(a[1]), ISqrt(a[2])>>
ICbrt(k) == CHOOSE j \in 0..k : j * j * j = k
RCbrt(a) == <<ICbrt(a[1]), ICbrt(a[2])>>

\* Math.floor and Math.ceil
RFloor(a) == a[1] \div a[2]
RCeil(a) == -((-a[1]) \div a[2])

\* NaN: the value of 0 / 0, and of undefined in arithmetic
NaN == <<0, 0>>

\* Math.min, Math.max and `-` on numbers one of which can be NaN
JMin(a, b) == IF a = NaN \/ b = NaN THEN NaN ELSE RMin(a, b)
JMax(a, b) == IF a = NaN \/ b = NaN THEN NaN ELSE RMax(a, b)
JSub(a, b) == IF a = NaN \/ b = NaN THEN NaN ELSE RSub(a, b)

\* Math.PI
PI == <<22, 7>>

\* Math.cos and Math.sin of a * pi for a a multiple of 1/2
CosPi(a) == LET k == ((2 * a[1]) \div a[2]) % 4
            IN  IF k = 0 THEN R1 ELSE IF k = 2 THEN RInt(-1) ELSE R0
SinPi(a) == LET k == ((2 * a[1]) \div a[2]) % 4
            IN  IF k = 1 THEN R1 ELSE IF k = 3 THEN RInt(-1) ELSE R0

(***************************************************************************)
(* radialWaveFunction.js                                                   *)
(*                                                                         *)
(* A function that calls factorial takes the memo table and returns the    *)
(* table it leaves behind beside its value: [ret, cache] or, where it can  *)
(* warn, [ret, cache, warn].  An operator whose name ends in a step name   *)
(* (radialNormalizationOf, ...) is the rest of the function's body after   *)
(* the calls it is given the results of.                                   *)
(***************************************************************************)
BOHR_RADIUS == 1

InitialFactorialCache == <<1, 1>>

RECURSIVE factorialLoop(_, _, _, _)
factorialLoop(cache, result, i, n) ==
    IF i > n THEN [ret |-> result, cache |-> cache]
    ELSE factorialLoop(Append(cache, result * i), result * i, i + 1, n)

\* A faulty factorial that restarts the product at 1 instead of at the last
\* table entry (C7 must tell it from factorial)
factorialFromOne(cache, n) ==
    IF n < 0 THEN [ret |-> 1, cache |-> cache]
    ELSE IF n < Len(cache) THEN [ret |-> cache[n + 1], cache |-> cache]
    ELSE factorialLoop(cache, 1, Len(cache), n)

factorial(cache, n) ==
    IF n < 0 THEN [ret |-> 1, cache |-> cache]
    ELSE IF n < Len(cache) THEN [ret |-> cache[n + 1], cache |-> cache]
    ELSE factorialLoop(cache, cache[Len(cache)], Len(cache), n)

\* factorial(a) and then factorial(b): both values and the table left behind
factorialThen(f1, b) == [first |-> f1.ret, second |-> factorial(f1.cache, b)]
factorialPairOf(p) == [a |-> p.first, b |-> p.second.ret, cache |-> p.second.cache]
factorialPair(cache, a, b) == factorialPairOf(factorialThen(factorial(cache, a), b))

\* A faulty step with the coefficient k + alpha for k - 1 + alpha (C8 must
\* tell it from laguerreStep)
laguerreStepOffByOne(k, alpha, x, L_prev1, L_prev2) ==
    RDiv(RSub(RMul(RSub(RInt(2 * k - 1 + alpha), x), L_prev1),
              RMul(RInt(k + alpha), L_prev2)),
         RInt(k))

laguerreStep(k, alpha, x, L_prev1, L_prev2) ==
    RDiv(RSub(RMul(RSub(RInt(2 * k - 1 + alpha), x), L_prev1),
              RMul(RInt(k - 1 + alpha), L_prev2)),
         RInt(k))

RECURSIVE laguerreLoop(_, _, _, _, _, _)
laguerreLoop(k, n, alpha, x, L_prev1, L_prev2) ==
    IF k = n THEN laguerreStep(k, alpha, x, L_prev1, L_prev2)
    ELSE laguerreLoop(k + 1, n, alpha, x,
                      laguerreStep(k, alpha, x, L_prev1, L_prev2), L_prev1)

laguerrePolynomial(n, alpha, x) ==
    IF n = 0 THEN R1
    ELSE IF n = 1 THEN RSub(RInt(1 + alpha), x)
    ELSE IF n < 2 THEN R0
    ELSE laguerreLoop(2, n, alpha, x, RSub(RInt(1 + alpha), x), R1)

\* The square of the value radialNormalization returns (it returns Math.sqrt
\* of this): f.a = factorial(n - l - 1), f.b = factorial(n + l).
radialNormalizationOf(f, n, Z) ==
    [sq |-> RDiv(RMul(RPow(Rat(2 * Z, n * BOHR_RADIUS), 3), RInt(f.a)),
                 RInt(2 * n * f.b * f.b * f.b)),
     cache |-> f.cache]

radialNormalization(cache, n, l, Z) ==
    radialNormalizationOf(factorialPair(cache, n - l - 1, n + l), n, Z)

\* A radial value sqrt(s) * q * exp(e)
ZeroRadial == [s |-> R0, q |-> R0, e |-> R0]
MkRadial(s, q, e) == IF s[1] = 0 \/ q[1] = 0 THEN ZeroRadial
                     ELSE [s |-> s, q |-> q, e |-> e]

\* A faulty value with the exponent -rho for -rho / 2 (C11 must tell it from
\* radialValue)
radialValueFullExponent(N, rho, n, l) ==
    [ret |-> MkRadial(N.sq,
                      RMul(RPow(rho, l), laguerrePolynomial(n - l - 1, 2 * l + 1, rho)),
                      RNeg(rho)),
     cache |-> N.cache, warn |-> <<>>]

\* lines 92-97, N the normalization and rho the dimensionless radius
radialValue(N, rho, n, l) ==
    [ret |-> MkRadial(N.sq,
                      RMul(RPow(rho, l), laguerrePolynomial(n - l - 1, 2 * l + 1, rho)),
                      RDiv(RNeg(rho), RInt(2))),
     cache |-> N.cache, warn |-> <<>>]

\* A faulty radialWaveFunction that does not reject l >= n (C5 must tell it
\* from radialWaveFunction)
radialWaveFunctionNoUpperGuard(cache, n, l, r, Z) ==
    IF n < 1 \/ l < 0
    THEN [ret |-> ZeroRadial, cache |-> cache,
          warn |-> <<[msg |-> "Invalid quantum numbers", n |-> n, l |-> l]>>]
    ELSE radialValue(radialNormalization(cache, n, l, Z),
                     RDiv(RMul(RInt(2 * Z), r), RInt(n * BOHR_RADIUS)), n, l)

radialWaveFunction(cache, n, l, r, Z) ==
    IF n < 1 \/ l < 0 \/ l >= n
    THEN [ret |-> ZeroRadial, cache |-> cache,
          warn |-> <<[msg |-> "Invalid quantum numbers", n |-> n, l |-> l]>>]
    ELSE radialValue(radialNormalization(cache, n, l, Z),
                     RDiv(RMul(RInt(2 * Z), r), RInt(n * BOHR_RADIUS)), n, l)

maxRadialExtent(n, l, Z) == RMul(Rat(4 * n * n, Z), RInt(BOHR_RADIUS))

mostProbableRadius(n, l, Z) ==
    RMul(RDiv(RSub(RInt(n * n), Rat(l * (l + 1), 2)), RInt(Z)), RInt(BOHR_RADIUS))

(***************************************************************************)
(* sphericalHarmonics.js                                                   *)
(***************************************************************************)
RECURSIVE doubleFactorialLoop(_, _, _)
doubleFactorialLoop(i, absM, doubleFactorial) ==
    IF i > absM THEN doubleFactorial
    ELSE doubleFactorialLoop(i + 1, absM, doubleFactorial * (2 * i - 1))

\* A faulty step with the factor 2 ll + 1 for 2 ll - 1 (C9 must tell it from
\* legendreStep)
legendreStepOffByTwo(ll, absM, x, Pmm1, Pmm) ==
    RDiv(RSub(RMul(RMul(x, RInt(2 * ll + 1)), Pmm1),
              RMul(RInt(ll + absM - 1), Pmm)),
         RInt(ll - absM))

legendreStep(ll, absM, x, Pmm1, Pmm) ==
    RDiv(RSub(RMul(RMul(x, RInt(2 * ll - 1)), Pmm1),
              RMul(RInt(ll + absM - 1), Pmm)),
         RInt(ll - absM))

RECURSIVE legendreLoop(_, _, _, _, _, _)
legendreLoop(ll, l, absM, x, Pmm1, Pmm) ==
    IF ll = l THEN legendreStep(ll, absM, x, Pmm1, Pmm)
    ELSE legendreLoop(ll + 1, l, absM, x, legendreStep(ll, absM, x, Pmm1, Pmm), Pmm1)

\* P_m^m, lines 31-39
legendreSeed(absM, x) ==
    IF absM > 0
    THEN RMul(RMul(RPow(RInt(-1), absM), RInt(doubleFactorialLoop(1, absM, 1))),
              RPow(RSqrt(RSub(R1, RMul(x, x))), absM))
    ELSE R1

\* lines 41-56, Pmm the seed
legendreFrom(l, absM, x, Pmm) ==
    IF l = absM THEN Pmm
    ELSE IF l = absM + 1 THEN RMul(RMul(x, RInt(2 * absM + 1)), Pmm)
    ELSE legendreLoop(absM + 2, l, absM, x, RMul(RMul(x, RInt(2 * absM + 1)), Pmm), Pmm)

legendrePolynomial(l, m, x) ==
    IF Abs(m) > l THEN R0
    ELSE legendreFrom(l, Abs(m), x, legendreSeed(Abs(m), x))

\* The square of the value sphericalHarmonicNormalization returns:
\* f.a = factorial(l - absM), f.b = factorial(l + absM).
sphericalHarmonicNormalizationOf(f, l) ==
    [sq |-> RDiv(RInt((2 * l + 1) * f.a), RMul(RMul(RInt(4), PI), RInt(f.b))),
     cache |-> f.cache]

sphericalHarmonicNormalization(cache, l, m) ==
    sphericalHarmonicNormalizationOf(factorialPair(cache, l - Abs(m), l + Abs(m)), l)

\* An angular value sqrt(s) * q
ZeroAngular == [s |-> R0, q |-> R0]
MkAngular(s, q) == IF s[1] = 0 \/ q[1] = 0 THEN ZeroAngular ELSE [s |-> s, q |-> q]

\* lines 90-100; Math.SQRT2 goes under the root as 2
harmonicValue(N, P, m, phi) ==
    [ret |-> IF m > 0
             THEN MkAngular(RMul(N.sq, RInt(2)), RMul(P, CosPi(RMul(RInt(m), phi))))
             ELSE IF m < 0
             THEN MkAngular(RMul(N.sq, RInt(2)),
                            RMul(P, SinPi(RMul(RInt(Abs(m)), phi))))
             ELSE MkAngular(N.sq, P),
     cache |-> N.cache, warn |-> <<>>]

\* theta = [cos |-> cos(theta)], phi = the angle divided by pi
sphericalHarmonic(cache, l, m, theta, phi) ==
    IF l < 0 \/ Abs(m) > l
    THEN [ret |-> ZeroAngular, cache |-> cache,
          warn |-> <<[msg |-> "Invalid quantum numbers", l |-> l, m |-> m]>>]
    ELSE harmonicValue(sphericalHarmonicNormalization(cache, l, m),
                       legendrePolynomial(l, Abs(m), theta.cos), m, phi)

(***************************************************************************)
(* probabilityDensity.js                                                   *)
(***************************************************************************)
\* A density c * exp(e)
\* Math.atan2(y, x) as a multiple of pi, for a point on an axis or a
\* diagonal of the plane.  The rationals carry no sign for 0, so where the
\* result depends on the signs of the zeros every value the doubles can give
\* is an outcome: atan2(+-0, x < 0) is pi or -pi, and atan2(+-0, +-0) is 0, pi
\* or -pi.
atan2Outcomes(y, x) ==
    IF y[1] = 0 /\ x[1] = 0 THEN {R0, R1, RInt(-1)}
    ELSE IF y[1] = 0 THEN (IF x[1] > 0 THEN {R0} ELSE {R1, RInt(-1)})
    ELSE IF x[1] = 0 THEN (IF y[1] > 0 THEN {Rat(1, 2)} ELSE {Rat(-1, 2)})
    ELSE IF x = y THEN (IF x[1] > 0 THEN {Rat(1, 4)} ELSE {Rat(-3, 4)})
    ELSE IF x = RNeg(y) THEN (IF x[1] > 0 THEN {Rat(-1, 4)} ELSE {Rat(3, 4)})
    ELSE {}

\* probabilityDensity.js lines 49-54, r and phi being computed
sphericalOf(x, y, z, r, phi) ==
    IF r[1] = 0 THEN [r |-> R0, theta |-> [cos |-> R1], phi |-> R0]
    ELSE [r |-> r, theta |-> [cos |-> RDiv(z, r)], phi |-> phi]

\* lines 46-55: every value cartesianToSpherical can return for (x, y, z)
cartesianToSpherical(x, y, z) ==
    {sphericalOf(x, y, z, RSqrt(RAdd(RAdd(RMul(x, x), RMul(y, y)), RMul(z, z))), phi) :
        phi \in atan2Outcomes(y, x)}

ZeroDensity == [c |-> R0, e |-> R0]
MkDensity(c, e) == IF c[1] = 0 THEN ZeroDensity ELSE [c |-> c, e |-> e]

\* R * R * Y * Y
densityProduct(R, Y) ==
    [ret |-> MkDensity(RMul(RMul(R.ret.s, RMul(R.ret.q, R.ret.q)),
                            RMul(Y.ret.s, RMul(Y.ret.q, Y.ret.q))),
                       RMul(RInt(2), R.ret.e)),
     cache |-> Y.cache, warn |-> R.warn \o Y.warn]

densityAfterRadial(R, l, m, theta, phi) ==
    densityProduct(R, sphericalHarmonic(R.cache, l, m, theta, phi))

probabilityDensity(cache, n, l, m, r, theta, phi, Z) ==
    densityAfterRadial(radialWaveFunction(cache, n, l, r, Z), l, m, theta, phi)

SinOf(theta) == RSqrt(RSub(R1, RMul(theta.cos, theta.cos)))

\* A faulty conversion that leaves sin(theta) out of x and y (C30 must tell it
\* from cartesianOf)
cartesianOfNoSine(r, sinTheta, theta, phi) ==
    [x |-> RMul(r, CosPi(phi)),
     y |-> RMul(r, SinPi(phi)),
     z |-> RMul(r, theta.cos)]

cartesianOf(r, sinTheta, theta, phi) ==
    [x |-> RMul(RMul(r, sinTheta), CosPi(phi)),
     y |-> RMul(RMul(r, sinTheta), SinPi(phi)),
     z |-> RMul(r, theta.cos)]

sphericalToCartesian(r, theta, phi) == cartesianOf(r, SinOf(theta), theta, phi)

(***************************************************************************)
(* Bounds and input grids                                                  *)
(***************************************************************************)
MaxFact == 6        \* factorial is called with -2 .. MaxFact
MaxDeg == 3         \* Laguerre degrees 0 .. MaxDeg, alpha 0 .. MaxDeg
MaxL == 2           \* Legendre / harmonic l in -1 .. MaxL, m in -MaxL-1 .. MaxL+1
MaxN == 2           \* radial n in 0 .. MaxN

LaguerreX == {RInt(0), Rat(1, 2), RInt(1), RInt(2), RInt(3), RInt(5)}
LegendreX == {RInt(-1), Rat(-3, 5), RInt(0), Rat(3, 5), Rat(4, 5), RInt(1)}
RadialR == {RInt(0), RInt(1), RInt(2)}
Charges == {1, 2}
Thetas == {[cos |-> x] : x \in {RInt(-1), RInt(0), Rat(3, 5)}}
Phis == {RInt(0), Rat(1, 2), RInt(1)}

Orbital(n, l, m, Z) == [n |-> n, l |-> l, m |-> m, Z |-> Z]
ValidOrbitals == {Orbital(1, 0, 0, 1), Orbital(2, 0, 0, 2), Orbital(2, 1, 1, 1)}
InvalidOrbitals == {Orbital(0, 0, 0, 1), Orbital(1, 1, 0, 1), Orbital(2, -1, 0, 1),
                    Orbital(2, 1, 2, 1)}
Orbitals == ValidOrbitals \cup InvalidOrbitals

\* The tuples probabilityDensity is called with
DensityOrbitals ==
    Orbitals \cup {Orbital(2, 1, 0, 1), Orbital(2, 1, -1, 1), Orbital(1, 0, 1, 1),
                  Orbital(1, -1, 0, 1), Orbital(0, 1, -1, 1)}

IsValid(o) == o.n >= 1 /\ 0 <= o.l /\ o.l < o.n /\ Abs(o.m) <= o.l

(***************************************************************************)
(* data/elements.js (unnamed/part_003)                                     *)
(***************************************************************************)
AUFBAU_ORDER ==
    <<[n |-> 1, l |-> 0], [n |-> 2, l |-> 0], [n |-> 2, l |-> 1], [n |-> 3, l |-> 0],
      [n |-> 3, l |-> 1], [n |-> 4, l |-> 0], [n |-> 3, l |-> 2], [n |-> 4, l |-> 1],
      [n |-> 5, l |-> 0], [n |-> 4, l |-> 2], [n |-> 5, l |-> 1], [n |-> 6, l |-> 0],
      [n |-> 4, l |-> 3], [n |-> 5, l |-> 2], [n |-> 6, l |-> 1], [n |-> 7, l |-> 0],
      [n |-> 5, l |-> 3], [n |-> 6, l |-> 2], [n |-> 7, l |-> 1]>>

\* The smaller of 2 and remaining
pairOrLess(remaining) == IF remaining < 2 THEN remaining ELSE 2

\* part_003 lines 46-50: the orbitals of one subshell from m on
RECURSIVE fillSubshell(_, _, _, _, _)
fillSubshell(config, n, l, m, remaining) ==
    IF m <= l /\ remaining > 0
    THEN fillSubshell(Append(config, [n |-> n, l |-> l, m |-> m,
                                      electrons |-> pairOrLess(remaining)]),
                      n, l, m + 1, remaining - pairOrLess(remaining))
    ELSE [config |-> config, remaining |-> remaining]

\* lines 39-51: the subshells of AUFBAU_ORDER from the i-th on
RECURSIVE aufbauLoop(_, _)
aufbauLoop(res, i) ==
    IF i > Len(AUFBAU_ORDER) \/ res.remaining <= 0 THEN res.config
    ELSE aufbauLoop(fillSubshell(res.config, AUFBAU_ORDER[i].n, AUFBAU_ORDER[i].l,
                                 -AUFBAU_ORDER[i].l, res.remaining),
                    i + 1)

\* lines 35-54, electronCount an integer
generateElectronConfiguration(electronCount) ==
    aufbauLoop([config |-> <<>>, remaining |-> electronCount], 1)

\* The entries of `elements` (lines 115-234) the model uses: symbol ->
\* atomicNumber
elements == [H |-> 1, He |-> 2, N |-> 7, Og |-> 118]

\* Names every object inherits from Object.prototype: elements[name] is a
\* function, which is truthy and has no atomicNumber
InheritedNames == {"constructor"}

\* null
Null == [null |-> TRUE]

\* lines 370-372.  atomicNumber is a number <<p, q>>; where the property is
\* missing it is undefined, NaN in the arithmetic done with it.
getElement(symbol) ==
    IF symbol \in DOMAIN elements
    THEN [symbol |-> symbol, atomicNumber |-> RInt(elements[symbol])]
    ELSE IF symbol \in InheritedNames THEN [symbol |-> symbol, atomicNumber |-> NaN]
    ELSE Null

(***************************************************************************)
(* state/AtomState.js.  An instance is the record of its fields; listeners *)
(* holds the callbacks by name.  Numbers are <<p, q>> as above.            *)
(***************************************************************************)
maxAnion == -8

\* AtomState.js lines 11-16
NewAtomState ==
    [currentSymbol |-> "H", ionizationState |-> R0, listeners |-> <<>>,
     orbitalVisibility |-> [l \in 0..3 |-> TRUE]]

\* lines 43-45
getCurrentElement(a) == getElement(a.currentSymbol)

\* lines 79-82
getElectronCount(a) ==
    JMax(R0, JSub(getCurrentElement(a).atomicNumber, a.ionizationState))

\* lines 87-89; generateElectronConfiguration(NaN) passes every
\* `remaining <= 0` and `remaining > 0` test as false and returns []
configurationFor(electronCount) ==
    IF electronCount = NaN THEN <<>> ELSE generateElectronConfiguration(electronCount[1])

getElectronConfiguration(a) == configurationFor(getElectronCount(a))

\* lines 104-113
getState(a) ==
    [element |-> getCurrentElement(a),
     ionizationState |-> a.ionizationState,
     electronCount |-> getElectronCount(a),
     configuration |-> getElectronConfiguration(a),
     orbitalVisibility |-> a.orbitalVisibility]

\* Array.prototype.indexOf, 1-based; 0 for "not found"
indexOf(list, x) ==
    IF \E i \in 1..Len(list) : list[i] = x
    THEN CHOOSE i \in 1..Len(list) : list[i] = x /\ \A j \in 1..(i - 1) : list[j] # x
    ELSE 0

\* list.splice(i, 1), i 1-based
spliceOne(list, i) == SubSeq(list, 1, i - 1) \o SubSeq(list, i + 1, Len(list))

\* lines 24-27: the function subscribe(listener) returns
unsubscribe(list, listener) ==
    IF indexOf(list, listener) > 0 THEN spliceOne(list, indexOf(list, listener))
    ELSE list

\* What a callback does when it is called, beside looking at the state:
\*   "view"  nothing
\*   "app"   the app's listener: nothing to the AtomState (it renders)
\*   "panel" ElementInfoPanel's listener: nothing to the AtomState
\*   "once"  calls the unsubscribe function it got from subscribe
\*   "dim"   on an 'element' change calls setOrbitalVisibility(1, false)
Callbacks == {"view", "app", "panel", "once", "dim"}

\* A run of _notify calls on the instance: atom, the calls of listeners made
\* so far (log) and the number of changes notified so far (changes)
Notifying(a) == [atom |-> a, log |-> <<>>, changes |-> 0, warn |-> <<>>]

logged(st, listener, state, changeType, change) ==
    [st EXCEPT !.log = Append(@, [listener |-> listener, changeType |-> changeType,
                                  state |-> state, change |-> change])]

RECURSIVE notifyFrom(_, _, _, _, _)
RECURSIVE listenerRan(_, _, _)

\* lines 33-38, _notify(changeType)
notify(st, changeType) ==
    notifyFrom([st EXCEPT !.changes = @ + 1], 1, getState(st.atom), changeType,
               st.changes + 1)

\* lines 35-37: for-of reads listeners[i] while i < listeners.length, on the
\* array as it is then
notifyFrom(st, i, state, changeType, change) ==
    IF i > Len(st.atom.listeners) THEN st
    ELSE notifyFrom(listenerRan(logged(st, st.atom.listeners[i], state, changeType,
                                       change),
                                st.atom.listeners[i], changeType),
                    i + 1, state, changeType, change)

\* The body of the callback
listenerRan(st, listener, changeType) ==
    IF listener = "once"
    THEN [st EXCEPT !.atom.listeners = unsubscribe(@, listener)]
    ELSE IF listener = "dim" /\ changeType = "element"
    THEN notify([st EXCEPT !.atom.orbitalVisibility[1] = FALSE], "visibility")
    ELSE st

\* lines 51-61
setElement(a, symbol) ==
    IF getElement(symbol) = Null
    THEN [Notifying(a) EXCEPT !.warn = <<[msg |-> "Unknown element", symbol |-> symbol]>>]
    ELSE notify(Notifying([a EXCEPT !.currentSymbol = symbol, !.ionizationState = R0]),
                "element")

\* A clamp that only keeps the state above maxAnion
clampIonizationFromBelow(maxCation, state) == JMax(RInt(maxAnion), state)

\* line 72: the clamp.  Math.min and Math.max return NaN when an argument is
clampIonization(maxCation, state) == JMax(RInt(maxAnion), JMin(maxCation, state))

\* lines 67-74
setIonization(a, state) ==
    notify(Notifying([a EXCEPT !.ionizationState =
                          clampIonization(getCurrentElement(a).atomicNumber, state)]),
           "ionization")

\* lines 96-99
setOrbitalVisibility(a, l, visible) ==
    notify(Notifying([a EXCEPT !.orbitalVisibility[l] = visible]), "visibility")

\* The last call on the instance before any is made
NoCall == [op |-> "new", arg |-> <<>>]

NewAtomLog ==
    [call |-> NoCall, before |-> NewAtomState, log |-> <<>>, warn |-> <<>>,
     unsubscribes |-> <<>>]

(***************************************************************************)
(* rendering/ElectronCloudRenderer.js.  meshes is the heap of the meshes   *)
(* made so far, by identity; the two maps and the two groups hold          *)
(* identities.                                                             *)
(***************************************************************************)
SPHERES_PER_ELECTRON == 800
CLOUD_POINTS_PER_ELECTRON == 2000

\* currentConfig: null, or the array last rendered
NoConfig == [null |-> TRUE, array |-> <<>>]
Config(configuration) == [null |-> FALSE, array |-> configuration]

\* ElectronCloudRenderer.js lines 23-55
NewRenderer ==
    [showSpheres |-> TRUE, showCloud |-> FALSE,
     sphereGroup |-> [visible |-> TRUE, children |-> {}],
     cloudGroup |-> [visible |-> TRUE, children |-> {}],
     sphereMeshes |-> <<>>, cloudMeshes |-> <<>>,
     currentConfig |-> NoConfig, currentZ |-> R1, cloudDensity |-> R1,
     meshes |-> <<>>]

\* `${n},${l},${m}`; its second field is read back at line 234
meshKey(o) == <<o.n, o.l, o.m>>
orbitalL(key) == key[2]

\* A map without one key
mapDelete(map, key) == [k \in DOMAIN map \ {key} |-> map[k]]

\* Meshes are told apart by identity only.  An identity here is the kind,
\* the key the mesh was made for, and a serial number: the first one not in
\* use for that kind and key.
MeshId(kind, key, gen) == [kind |-> kind, key |-> key, gen |-> gen]

newMesh(r, kind, key) ==
    MeshId(kind, key,
           CHOOSE g \in 0..Cardinality(DOMAIN r.meshes) :
               /\ MeshId(kind, key, g) \notin DOMAIN r.meshes
               /\ \A j \in 0..(g - 1) : MeshId(kind, key, j) \in DOMAIN r.meshes)

\* The meshes that are disposed and held by no map and no group are of no
\* interest once the call that removed them is over
Held(r) ==
    {r.sphereMeshes[k] : k \in DOMAIN r.sphereMeshes}
        \cup {r.cloudMeshes[k] : k \in DOMAIN r.cloudMeshes}
        \cup r.sphereGroup.children \cup r.cloudGroup.children

collected(r) ==
    [r EXCEPT !.meshes = [id \in {i \in DOMAIN r.meshes :
                                      i \in Held(r) \/ ~r.meshes[i].disposed}
                              |-> r.meshes[id]]]

\* The serial numbers freed are used again: the same objects under the
\* lowest numbers
renamed(r, id) ==
    IF id.gen > 0 /\ MeshId(id.kind, id.key, 0) \notin DOMAIN r.meshes
    THEN MeshId(id.kind, id.key, 0)
    ELSE id

renumbered(r) ==
    [r EXCEPT !.meshes = [j \in {renamed(r, i) : i \in DOMAIN r.meshes} |->
                              r.meshes[CHOOSE i \in DOMAIN r.meshes : renamed(r, i) = j]],
              !.sphereMeshes = [k \in DOMAIN r.sphereMeshes |->
                                    renamed(r, r.sphereMeshes[k])],
              !.cloudMeshes = [k \in DOMAIN r.cloudMeshes |->
                                   renamed(r, r.cloudMeshes[k])],
              !.sphereGroup.children = {renamed(r, i) : i \in @},
              !.cloudGroup.children = {renamed(r, i) : i \in @}]

\* The instance as the next call finds it
settled(r) == renumbered(collected(r))

\* A removal that only forgets the mesh
forgetSphereOrbital(r, key) ==
    IF key \in DOMAIN r.sphereMeshes
    THEN [r EXCEPT !.sphereMeshes = mapDelete(r.sphereMeshes, key)]
    ELSE r

\* lines 188-195
_removeSphereOrbital(r, key) ==
    IF key \in DOMAIN r.sphereMeshes
    THEN [r EXCEPT !.sphereGroup.children = @ \ {r.sphereMeshes[key]},
                   !.meshes[r.sphereMeshes[key]].disposed = TRUE,
                   !.sphereMeshes = mapDelete(r.sphereMeshes, key)]
    ELSE r

\* lines 197-205
_removeCloudOrbital(r, key) ==
    IF key \in DOMAIN r.cloudMeshes
    THEN [r EXCEPT !.cloudGroup.children = @ \ {r.cloudMeshes[key]},
                   !.meshes[r.cloudMeshes[key]].disposed = TRUE,
                   !.cloudMeshes = mapDelete(r.cloudMeshes, key)]
    ELSE r

\* A mesh as three.js makes it: visible
NewMesh == [visible |-> TRUE, disposed |-> FALSE]

\* lines 114-146: the mesh is made, stored under the key and added to the
\* group
sphereAdded(r, key, id) ==
    [r EXCEPT !.meshes = (id :> NewMesh) @@ r.meshes,
              !.sphereMeshes = (key :> id) @@ r.sphereMeshes,
              !.sphereGroup.children = @ \cup {id}]

\* lines 166-185
cloudAdded(r, key, id) ==
    [r EXCEPT !.meshes = (id :> NewMesh) @@ r.meshes,
              !.cloudMeshes = (key :> id) @@ r.cloudMeshes,
              !.cloudGroup.children = @ \cup {id}]

\* lines 107-111: sampleOrbital is asked for numSpheres points; it returns
\* none when asked for none, and may return none otherwise (empties: the
\* calls that do)
sphereSampled(r, o, empties) ==
    IF SPHERES_PER_ELECTRON * o.electrons <= 0 \/ <<"sphere", meshKey(o)>> \in empties
    THEN r
    ELSE sphereAdded(r, meshKey(o), newMesh(r, "sphere", meshKey(o)))

\* lines 100-147
_renderSphereOrbital(r, o, empties) ==
    sphereSampled(_removeSphereOrbital(r, meshKey(o)), o, empties)

\* lines 159-163
cloudSampled(r, o, empties) ==
    IF RFloor(RMul(RInt(CLOUD_POINTS_PER_ELECTRON * o.electrons), r.cloudDensity)) <= 0
           \/ <<"cloud", meshKey(o)>> \in empties
    THEN r
    ELSE cloudAdded(r, meshKey(o), newMesh(r, "cloud", meshKey(o)))

\* lines 152-186
_renderCloudOrbital(r, o, empties) ==
    cloudSampled(_removeCloudOrbital(r, meshKey(o)), o, empties)

\* lines 246-255
RECURSIVE clearSpheres(_)
clearSpheres(r) ==
    IF DOMAIN r.sphereMeshes = {} THEN r
    ELSE clearSpheres(_removeSphereOrbital(r, CHOOSE k \in DOMAIN r.sphereMeshes : TRUE))

RECURSIVE clearClouds(_)
clearClouds(r) ==
    IF DOMAIN r.cloudMeshes = {} THEN r
    ELSE clearClouds(_removeCloudOrbital(r, CHOOSE k \in DOMAIN r.cloudMeshes : TRUE))

clearAll(r) == clearClouds(clearSpheres(r))

\* lines 220-226, one orbital
sphereIfShown(r, o, empties) ==
    IF r.showSpheres THEN _renderSphereOrbital(r, o, empties) ELSE r

cloudIfShown(r, o, empties) ==
    IF r.showCloud THEN _renderCloudOrbital(r, o, empties) ELSE r

RECURSIVE renderFrom(_, _, _, _)
renderFrom(r, configuration, i, empties) ==
    IF i > Len(configuration) THEN r
    ELSE renderFrom(cloudIfShown(sphereIfShown(r, configuration[i], empties),
                                 configuration[i], empties),
                    configuration, i + 1, empties)

\* lines 210-227
renderConfiguration(r, configuration, Z, empties) ==
    renderFrom(clearAll([r EXCEPT !.currentConfig = Config(configuration),
                                  !.currentZ = Z]),
               configuration, 1, empties)

\* The meshes the two maps hold under keys whose second field is l
meshesOfType(r, l) ==
    {r.sphereMeshes[k] : k \in {x \in DOMAIN r.sphereMeshes : orbitalL(x) = l}}
        \cup {r.cloudMeshes[k] : k \in {x \in DOMAIN r.cloudMeshes : orbitalL(x) = l}}

\* lines 232-241
setOrbitalTypeVisibility(r, l, visible) ==
    [r EXCEPT !.meshes =
        [id \in DOMAIN r.meshes |->
            IF id \in meshesOfType(r, l)
            THEN [r.meshes[id] EXCEPT !.visible = visible]
            ELSE r.meshes[id]]]

\* A settings object is a function on the names it has
Has(settings, name) == name \in DOMAIN settings

\* lines 261-267: density = 1.0 where settings has none
densityOf(settings) == IF Has(settings, "density") THEN settings.density ELSE R1

\* lines 270-271
modeChanged(r, settings) ==
    \/ Has(settings, "showSpheres") /\ settings.showSpheres # r.showSpheres
    \/ Has(settings, "showCloud") /\ settings.showCloud # r.showCloud

RAbs(a) == IF RLess(a, R0) THEN RNeg(a) ELSE a

\* line 274
densityChanged(r, settings) ==
    RLess(Rat(1, 20), RAbs(RSub(densityOf(settings), r.cloudDensity)))

\* lines 276-282
settingsStored(r, settings) ==
    [r EXCEPT !.showSpheres = IF Has(settings, "showSpheres") THEN settings.showSpheres
                              ELSE @,
              !.showCloud = IF Has(settings, "showCloud") THEN settings.showCloud ELSE @,
              !.cloudDensity = densityOf(settings),
              !.sphereGroup.visible = IF Has(settings, "showSpheres")
                                      THEN settings.showSpheres ELSE r.showSpheres,
              !.cloudGroup.visible = IF Has(settings, "showCloud")
                                     THEN settings.showCloud ELSE r.showCloud]

\* lines 284-287
rerendered(r, changed, empties) ==
    IF changed /\ ~r.currentConfig.null
    THEN renderConfiguration(r, r.currentConfig.array, r.currentZ, empties)
    ELSE r

\* lines 260-301
updateSettings(r, settings, empties) ==
    rerendered(settingsStored(r, settings),
               modeChanged(r, settings) \/ densityChanged(r, settings), empties)

(***************************************************************************)
(* ui/OrbitalLegend.js, ui/VisualizationControls.js and the app (main.js)  *)
(***************************************************************************)
\* OrbitalLegend, unnamed/part_002 line 13
NewLegend == [s |-> TRUE, p |-> TRUE, d |-> TRUE, f |-> TRUE]

\* part_002 line 41
legendL == [s |-> 0, p |-> 1, d |-> 2, f |-> 3]

\* VisualizationControls, unnamed/part_001 lines 334-341: the settings the
\* renderer is given
NewControls == [cloudDensity |-> R1, showSpheres |-> TRUE, showCloud |-> FALSE]

\* unnamed/part_000 lines 156-172
_onVisualizationSettingsChange(r, settings, empties) ==
    updateSettings(r, [density |-> settings.cloudDensity,
                       showSpheres |-> settings.showSpheres,
                       showCloud |-> settings.showCloud], empties)

\* part_000 lines 184-194: every entry is taken as a subshell and its
\* electrons are laid out from m = -l again
RECURSIVE expandFrom(_, _, _)
expandFrom(expandedConfig, configuration, i) ==
    IF i > Len(configuration) THEN expandedConfig
    ELSE expandFrom(fillSubshell(expandedConfig, configuration[i].n, configuration[i].l,
                                 -configuration[i].l, configuration[i].electrons).config,
                    configuration, i + 1)

expandedConfigOf(configuration) == expandFrom(<<>>, configuration, 1)

\* part_000 lines 174-200
_updateVisualization(r, state, empties) ==
    renderConfiguration(r, expandedConfigOf(state.configuration),
                        state.element.atomicNumber, empties)

(***************************************************************************)
(* SpecFn: the pure functions, called in any order on the shared memo      *)
(***************************************************************************)
SamplerIdle ==
    /\ pc = "idle"
    /\ orb = [n |-> 0, l |-> 0, m |-> 0, Z |-> 1]
    /\ numPoints = 0
    /\ maxP = [c |-> R0, e |-> R0]
    /\ pointIndex = 0
    /\ attempts = 0
    /\ points = <<>>
    /\ returned = <<>>
    /\ console = <<>>
    /\ warned = {}
    /\ accepted = <<>>

FnNone ==
    /\ fn = "none"
    /\ fargs = <<>>
    /\ fret = 0
    /\ fwarn = <<>>

NoTry == [u |-> R0, ut |-> R0, up |-> R0, ua |-> R0]

NoBatch == [kind |-> "none", done |-> FALSE]

InitFn ==
    /\ factorialCache = InitialFactorialCache
    /\ FnNone
    /\ SamplerIdle
    /\ lastTry = NoTry
    /\ maxProbabilityCache = <<>>
    /\ estimated = FALSE
    /\ batch = NoBatch
    /\ results = <<>>
    /\ atom = NewAtomState
    /\ atomLog = NewAtomLog
    /\ renderer = NewRenderer
    /\ legend = NewLegend
    /\ controls = NewControls

\* A call from outside: the value, the warnings and the table it leaves
Called(name, args, ret, warn, cache) ==
    /\ fn' = name
    /\ fargs' = args
    /\ fret' = ret
    /\ fwarn' = warn
    /\ factorialCache' = cache
    /\ UNCHANGED <<samplerVars, lastTry, cacheVars, batchVars, uiVars>>

CalledWith(name, args, res) == Called(name, args, res.ret, res.warn, res.cache)

CallFactorialOf(k, res) == Called("factorial", [k |-> k], res.ret, <<>>, res.cache)

CallFactorial(k) ==
    /\ fn = "none"
    /\ CallFactorialOf(k, factorial(factorialCache, k))

CallLaguerre(k, alpha, x) ==
    /\ fn = "none"
    /\ Called("laguerrePolynomial", [n |-> k, alpha |-> alpha, x |-> x],
              laguerrePolynomial(k, alpha, x), <<>>, factorialCache)

CallLegendre(l, m, x) ==
    /\ fn = "none"
    /\ Called("legendrePolynomial", [l |-> l, m |-> m, x |-> x],
              legendrePolynomial(l, m, x), <<>>, factorialCache)

\* fret is the square of the value returned
CallRadialNormalizationOf(n, l, Z, res) ==
    Called("radialNormalization", [n |-> n, l |-> l, Z |-> Z], res.sq, <<>>, res.cache)

CallRadialNormalization(n, l, Z) ==
    /\ fn = "none"
    /\ CallRadialNormalizationOf(n, l, Z, radialNormalization(factorialCache, n, l, Z))

CallRadialWaveFunction(n, l, r, Z) ==
    /\ fn = "none"
    /\ CalledWith("radialWaveFunction", [n |-> n, l |-> l, r |-> r, Z |-> Z],
                  radialWaveFunction(factorialCache, n, l, r, Z))

CallSphericalHarmonic(l, m, theta, phi) ==
    /\ fn = "none"
    /\ CalledWith("sphericalHarmonic", [l |-> l, m |-> m, theta |-> theta, phi |-> phi],
                  sphericalHarmonic(factorialCache, l, m, theta, phi))

CallProbabilityDensity(n, l, m, r, theta, phi, Z) ==
    /\ fn = "none"
    /\ CalledWith("probabilityDensity",
                  [n |-> n, l |-> l, m |-> m, r |-> r, theta |-> theta, phi |-> phi,
                   Z |-> Z],
                  probabilityDensity(factorialCache, n, l, m, r, theta, phi, Z))

\* cartesianToSpherical(p.x, p.y, p.z); from is history, the spherical
\* coordinates p was converted from by sphericalToCartesian, if it was
CallCartesianToSpherical(p, from) ==
    /\ fn = "none"
    /\ \E s \in cartesianToSpherical(p.x, p.y, p.z) :
           Called("cartesianToSpherical", [x |-> p.x, y |-> p.y, z |-> p.z, from |-> from],
                  s, <<>>, factorialCache)

\* The largest atomicNumber of the table (Og)
MaxAtomicNumber == 118

\* The electron counts AtomState can ask for: up to atomicNumber - maxAnion
MaxElectrons == MaxAtomicNumber - maxAnion

CallGenerateElectronConfiguration(electronCount) ==
    /\ fn = "none"
    /\ Called("generateElectronConfiguration", [electronCount |-> electronCount],
              generateElectronConfiguration(electronCount), <<>>, factorialCache)

\* The caller takes the value; the next call starts from here.
FnReturn ==
    /\ fn # "none"
    /\ fn' = "none"
    /\ fargs' = <<>>
    /\ fret' = 0
    /\ fwarn' = <<>>
    /\ UNCHANGED <<factorialCache, samplerVars, lastTry, cacheVars, batchVars, uiVars>>

\* The points cartesianToSpherical is called with directly
CartesianPoints ==
    {[x |-> R0, y |-> R0, z |-> R0], [x |-> R0, y |-> R0, z |-> RInt(-2)],
     [x |-> RInt(-1), y |-> R0, z |-> R0], [x |-> R0, y |-> RInt(2), z |-> R0],
     [x |-> RInt(-2), y |-> RInt(-2), z |-> R1]}

\* The spherical coordinates converted there and back: theta is 0, pi/2 or
\* acos(3/5), phi a multiple of pi/2 in [0, 2 pi)
RoundTripR == {RInt(5)}
NotConverted == [r |-> R0, theta |-> [cos |-> R1], phi |-> R0]
RoundTripThetas == {[cos |-> x] : x \in {R1, R0, Rat(3, 5)}}
RoundTripPhis == {R0, Rat(1, 2), R1, Rat(3, 2)}

NextFn ==
    \/ \E p \in CartesianPoints :
           CallCartesianToSpherical(p, NotConverted)
    \/ \E r \in RoundTripR, theta \in RoundTripThetas, phi \in RoundTripPhis :
           CallCartesianToSpherical(sphericalToCartesian(r, theta, phi),
                                    [r |-> r, theta |-> theta, phi |-> phi])
    \/ \E k \in -2..MaxFact : CallFactorial(k)
    \/ \E k \in 0..MaxDeg, alpha \in 0..MaxDeg, x \in LaguerreX :
           CallLaguerre(k, alpha, x)
    \/ \E l \in 0..MaxL, m \in (-MaxL - 1)..(MaxL + 1), x \in LegendreX :
           CallLegendre(l, m, x)
    \/ \E n \in 1..MaxN, Z \in Charges : \E l \in 0..(n - 1) :
           CallRadialNormalization(n, l, Z)
    \/ \E n \in 0..MaxN, l \in -1..MaxN, r \in RadialR, Z \in Charges :
           CallRadialWaveFunction(n, l, r, Z)
    \/ \E l \in -1..MaxL, m \in (-MaxL - 1)..(MaxL + 1), theta \in Thetas,
          phi \in Phis :
           CallSphericalHarmonic(l, m, theta, phi)
    \/ \E o \in DensityOrbitals, r \in RadialR, theta \in Thetas, phi \in Phis :
           CallProbabilityDensity(o.n, o.l, o.m, r, theta, phi, o.Z)
    \/ \E electronCount \in 0..MaxElectrons :
           CallGenerateElectronConfiguration(electronCount)
    \/ FnReturn

SpecFn == InitFn /\ [][NextFn]_vars

(***************************************************************************)
(* orbitalSampler.js                                                       *)
(***************************************************************************)
AttemptFactor == 100
AdaptAfter == 1000

\* Math.exp(k) for an integer k >= 0, as the comparisons of densities use it
ExpApprox(k) == RPow(<<19, 7>>, k)

\* a < b for two values c * exp(e); every density difference of exponents on
\* the grids is an integer (CHOOSE has no value otherwise).
DLess(a, b) ==
    IF a.c[1] = 0 \/ b.c[1] = 0 THEN RLess(a.c, b.c)
    ELSE LET d == RSub(a.e, b.e)
             k == CHOOSE j \in {d[1]} : d[2] = 1
         IN  IF k >= 0 THEN RLess(RMul(a.c, ExpApprox(k)), b.c)
             ELSE RLess(a.c, RMul(b.c, ExpApprox(-k)))

DScale(a, k) == MkDensity(RMul(a.c, k), a.e)

\* Math.acos(x): the angle is kept by its cosine
Acos(x) == [cos |-> x]

SeqToSet(q) == {q[i] : i \in 1..Len(q)}

\* A faulty weight that leaves the volume element out (C20 must tell it from
\* weighted)
weightedNoVolume(P, volumeWeight) ==
    [ret |-> P.ret, cache |-> P.cache, warn |-> SeqToSet(P.warn)]

\* P * r * r * Math.sin(theta), lines 190-194 and 245-247
weighted(P, volumeWeight) ==
    [ret |-> MkDensity(RMul(P.ret.c, volumeWeight), P.ret.e),
     cache |-> P.cache, warn |-> SeqToSet(P.warn)]

weightedDensity(cache, o, r, theta, phi) ==
    weighted(probabilityDensity(cache, o.n, o.l, o.m, r, theta, phi, o.Z),
             RMul(RMul(r, r), SinOf(theta)))

\* lines 233-240: the radius of one pre-sampling pass, clamped to [0.01, maxR]
estimateRadius(d, maxR, rPeak) ==
    RMax(Rat(1, 100),
         RMin(IF RLess(d.b, Rat(7, 10))
              THEN RMul(rPeak, RAdd(Rat(3, 10), RMul(d.u, Rat(14, 10))))
              ELSE RMul(maxR, d.u),
              maxR))

\* line 248-250: keep the larger weighted density
estimateKeep(st, W) ==
    [maxP |-> IF DLess(st.maxP, W.ret) THEN W.ret ELSE st.maxP,
     cache |-> W.cache,
     warn |-> st.warn \cup W.warn]

\* One pass of the pre-sampling loop; d holds the four Math.random() values
\* of the pass: b (branch), u (radius), ut, up.
estimatePass(st, o, maxR, rPeak, d) ==
    estimateKeep(st, weightedDensity(st.cache, o, estimateRadius(d, maxR, rPeak),
                                     Acos(RSub(RMul(RInt(2), d.ut), R1)),
                                     RMul(d.up, RInt(2))))

RECURSIVE estimateLoop(_, _, _, _, _, _)
estimateLoop(st, o, maxR, rPeak, draws, i) ==
    IF i > Len(draws) THEN st
    ELSE estimateLoop(estimatePass(st, o, maxR, rPeak, draws[i]),
                      o, maxR, rPeak, draws, i + 1)

\* line 253: the safety margin
estimateResult(res) ==
    [ret |-> DScale(res.maxP, Rat(3, 2)), cache |-> res.cache, warn |-> res.warn]

estimateMaxProbability(cache, o, maxR, draws) ==
    estimateResult(estimateLoop([maxP |-> ZeroDensity, cache |-> cache, warn |-> {}],
                                o, maxR, mostProbableRadius(o.n, o.l, o.Z), draws, 1))

\* probabilityDensity.js line 79: keep the larger density
findKeep(st, P) ==
    [maxP |-> IF DLess(st.maxP, P.ret) THEN P.ret ELSE st.maxP, cache |-> P.cache]

\* One pass of the loop at lines 73-80; d holds its three Math.random()
\* values: u (radius), ut, up.
findPass(st, o, maxR, d) ==
    findKeep(st, probabilityDensity(st.cache, o.n, o.l, o.m, RMul(d.u, maxR),
                                    Acos(RSub(RMul(RInt(2), d.ut), R1)),
                                    RMul(d.up, RInt(2)), o.Z))

RECURSIVE findLoop(_, _, _, _, _)
findLoop(st, o, maxR, draws, i) ==
    IF i > Len(draws) THEN st
    ELSE findLoop(findPass(st, o, maxR, draws[i]), o, maxR, draws, i + 1)

\* line 83: the safety margin
findResult(st) == [ret |-> DScale(st.maxP, Rat(6, 5)), cache |-> st.cache]

findMaxProbability(cache, o, draws) ==
    findResult(findLoop([maxP |-> ZeroDensity, cache |-> cache], o,
                        maxRadialExtent(o.n, o.l, o.Z), draws, 1))

\* line 92: the key `${n},${l},${m},${Z}`, one string per tuple of integers
cacheKey(o) == <<o.n, o.l, o.m, o.Z>>

\* A faulty set that keeps the entry a key already has (C15 must tell it from
\* mapSet)
mapSetIfAbsent(map, key, value) ==
    [k \in (DOMAIN map) \cup {key} |-> IF k \in DOMAIN map THEN map[k] ELSE value]

\* Map.prototype.set
mapSet(map, key, value) ==
    [k \in (DOMAIN map) \cup {key} |-> IF k = key THEN value ELSE map[k]]

getStored(map, cache, key) ==
    [ret |-> map[key], map |-> map, cache |-> cache, estimated |-> FALSE]

getEstimated(map, key, res) ==
    [ret |-> res.ret, map |-> mapSet(map, key, res.ret), cache |-> res.cache,
     estimated |-> TRUE]

\* A faulty lookup that estimates on every call (C13 must tell it from
\* getMaxProbability)
getMaxProbabilityAlwaysEstimates(map, cache, o, draws) ==
    getEstimated(map, cacheKey(o), findMaxProbability(cache, o, draws))

\* lines 91-99
getMaxProbability(map, cache, o, draws) ==
    IF cacheKey(o) \notin DOMAIN map
    THEN getEstimated(map, cacheKey(o), findMaxProbability(cache, o, draws))
    ELSE getStored(map, cache, cacheKey(o))

\* part_001 lines 299-300: electronsPerOrbital * k / electronsPerOrbital
scaledBack(electronsPerOrbital, k) ==
    IF electronsPerOrbital[1] = 0 THEN NaN
    ELSE RDiv(RMul(electronsPerOrbital, RInt(k)), electronsPerOrbital)

\* Math.ceil(a) - Math.floor(b)
ceilMinusFloor(a, b) ==
    IF a = NaN \/ b = NaN THEN NaN ELSE RInt(RCeil(a) - RFloor(b))

\* a || b: b when a is 0 or NaN
orElse(a, b) == IF a = NaN \/ a[1] = 0 THEN b ELSE a

\* lines 297-302; `-` binds tighter than `||`
electronsOf(electronsPerOrbital, l, totalElectrons, m) ==
    RMin(RInt(2),
         orElse(ceilMinusFloor(scaledBack(electronsPerOrbital, m + l + 1),
                               scaledBack(electronsPerOrbital, m + l)),
                RInt(RFloor(Rat(totalElectrons, 2 * l + 1)))))

\* line 291 and lines 297-302
electronsInThisOrbital(l, totalElectrons, m) ==
    electronsOf(Rat(totalElectrons, 2 * l + 1), l, totalElectrons, m)[1]

\* line 269: the key `${n},${l},${m}`
orbitalKey(o) == <<o.n, o.l, o.m>>

\* A faulty guard that allows twice the attempts (C2 must tell it from
\* loopGuard)
loopGuardTwiceTheBudget(pIndex, att, nPoints) ==
    pIndex < nPoints * 3 /\ att < nPoints * AttemptFactor * 2

\* line 175
loopGuard(pIndex, att, nPoints) ==
    pIndex < nPoints * 3 /\ att < nPoints * AttemptFactor

\* A faulty test with <= for < (C6 must tell it from accepts)
acceptsOrEqual(u, ceiling, weightedP) == ~DLess(weightedP, DScale(ceiling, u))

\* line 197: Math.random() * maxP < weightedP
accepts(u, ceiling, weightedP) == DLess(DScale(ceiling, u), weightedP)

\* A faulty store that writes x and y only (C1 must tell it from storePoint)
storePointPair(buf, pIndex, xyz) ==
    [points |-> [[buf EXCEPT ![pIndex + 1] = xyz.x]
                      EXCEPT ![pIndex + 2] = xyz.y],
     pointIndex |-> pIndex + 2]

\* lines 198-201
storePoint(buf, pIndex, xyz) ==
    [points |-> [[[buf EXCEPT ![pIndex + 1] = xyz.x]
                       EXCEPT ![pIndex + 2] = xyz.y]
                       EXCEPT ![pIndex + 3] = xyz.z],
     pointIndex |-> pIndex + 3]

\* lines 205-207
adapt(ceiling, pIndex, att) ==
    IF att > AdaptAfter /\ pIndex * 100 < att THEN DScale(ceiling, RInt(2))
    ELSE ceiling

\* A faulty end that reports the shortfall but returns the whole buffer (C3
\* must tell it from finish)
finishWholeBuffer(buf, pIndex, nPoints, o) ==
    IF pIndex < nPoints * 3
    THEN [ret |-> buf,
          warn |-> <<[msg |-> "Only generated", got |-> Rat(pIndex, 3),
                      of |-> nPoints, n |-> o.n, l |-> o.l, m |-> o.m]>>]
    ELSE [ret |-> buf, warn |-> <<>>]

\* lines 210-216
finish(buf, pIndex, nPoints, o) ==
    IF pIndex < nPoints * 3
    THEN [ret |-> SubSeq(buf, 1, pIndex),
          warn |-> <<[msg |-> "Only generated", got |-> Rat(pIndex, 3),
                      of |-> nPoints, n |-> o.n, l |-> o.l, m |-> o.m]>>]
    ELSE [ret |-> buf, warn |-> <<>>]

(***************************************************************************)
(* Spec: calls of sampleOrbital, one after the other                       *)
(***************************************************************************)
MaxPoints == 2      \* numPoints in 0 .. MaxPoints
EstSamples == 2     \* passes of the pre-sampling loop that are drawn freely

\* The Math.random() values of one pre-sampling pass
EstDraws ==
    {[b |-> Rat(1, 2), u |-> Rat(1, 2), ut |-> Rat(1, 2), up |-> R0],
     [b |-> Rat(9, 10), u |-> Rat(1, 8), ut |-> Rat(4, 5), up |-> R0],
     [b |-> Rat(9, 10), u |-> Rat(1, 4), ut |-> Rat(1, 2), up |-> Rat(1, 4)]}

\* The Math.random() values that propose one candidate: u (radius), ut, up
Candidates ==
    {[u |-> R0, ut |-> Rat(1, 2), up |-> R0],
     [u |-> Rat(1, 512), ut |-> Rat(1, 2), up |-> R0],
     [u |-> Rat(1, 64), ut |-> Rat(1, 2), up |-> Rat(1, 4)]}

\* The Math.random() value of the rejection test
AcceptDraws == {R0, Rat(1, 2)}

Init == InitFn

MaxR == maxRadialExtent(orb.n, orb.l, orb.Z)

Begin(o, np) ==
    /\ pc = "idle"
    /\ fn = "none"
    /\ pc' = "estimate"
    /\ orb' = o
    /\ numPoints' = np
    /\ points' = [i \in 1..(np * 3) |-> R0]
    /\ maxP' = ZeroDensity
    /\ pointIndex' = 0
    /\ attempts' = 0
    /\ returned' = <<>>
    /\ console' = <<>>
    /\ warned' = {}
    /\ accepted' = <<>>
    /\ UNCHANGED <<factorialCache, fnVars, lastTry, cacheVars, batchVars, uiVars>>

Estimated(res) ==
    /\ pc' = "loop"
    /\ maxP' = res.ret
    /\ factorialCache' = res.cache
    /\ warned' = warned \cup res.warn
    /\ UNCHANGED <<orb, numPoints, points, pointIndex, attempts, returned,
                   console, accepted, fnVars, lastTry, cacheVars, batchVars, uiVars>>

\* line 169
Estimate(draws) ==
    /\ pc = "estimate"
    /\ \E res \in {estimateMaxProbability(factorialCache, orb, MaxR, draws)} :
           Estimated(res)

\* lines 203-207 and what every pass of the loop leaves behind
Attempted(W, pIndex) ==
    /\ attempts' = attempts + 1
    /\ pointIndex' = pIndex
    /\ maxP' = adapt(maxP, pIndex, attempts + 1)
    /\ factorialCache' = W.cache
    /\ warned' = warned \cup W.warn
    /\ UNCHANGED <<pc, orb, numPoints, returned, console, fnVars, cacheVars,
                   batchVars, uiVars>>

\* lines 198-201
Accept(r, theta, phi, W, st) ==
    /\ points' = st.points
    /\ accepted' = Append(accepted, [r |-> r, theta |-> theta, phi |-> phi,
                                     w |-> W.ret, ceiling |-> maxP])
    /\ Attempted(W, st.pointIndex)

Reject(W) ==
    /\ UNCHANGED <<points, accepted>>
    /\ Attempted(W, pointIndex)

\* line 197
Test(r, theta, phi, ua, W) ==
    IF accepts(ua, maxP, W.ret)
    THEN \E st \in {storePoint(points, pointIndex,
                                sphericalToCartesian(r, theta, phi))} :
             Accept(r, theta, phi, W, st)
    ELSE Reject(W)

\* lines 190-194
Propose(r, theta, phi, ua) ==
    \E W \in {weightedDensity(factorialCache, orb, r, theta, phi)} :
        Test(r, theta, phi, ua, W)

\* One pass of the rejection loop, lines 175-208; c holds the Math.random()
\* values of the candidate, ua the one of the rejection test.
Attempt(c, ua) ==
    /\ pc = "loop"
    /\ loopGuard(pointIndex, attempts, numPoints)
    /\ lastTry' = [u |-> c.u, ut |-> c.ut, up |-> c.up, ua |-> ua]
    /\ \E r \in {RMul(MaxR, RCbrt(c.u))},
          theta \in {Acos(RSub(RMul(RInt(2), c.ut), R1))},
          phi \in {RMul(c.up, RInt(2))} :
           Propose(r, theta, phi, ua)

Finished(res) ==
    /\ pc' = "done"
    /\ returned' = res.ret
    /\ console' = console \o res.warn
    /\ UNCHANGED <<factorialCache, orb, numPoints, maxP, pointIndex, attempts,
                   points, warned, accepted, fnVars, lastTry, cacheVars,
                   batchVars, uiVars>>

LoopExit ==
    /\ pc = "loop"
    /\ ~loopGuard(pointIndex, attempts, numPoints)
    /\ \E res \in {finish(points, pointIndex, numPoints, orb)} : Finished(res)

\* The caller takes the buffer; the next call starts from here.
Returned ==
    /\ pc = "done"
    /\ pc' = "idle"
    /\ orb' = [n |-> 0, l |-> 0, m |-> 0, Z |-> 1]
    /\ numPoints' = 0
    /\ maxP' = ZeroDensity
    /\ pointIndex' = 0
    /\ attempts' = 0
    /\ points' = <<>>
    /\ returned' = <<>>
    /\ console' = <<>>
    /\ warned' = {}
    /\ accepted' = <<>>
    /\ UNCHANGED <<factorialCache, fnVars, lastTry, cacheVars, uiVars>>

Return ==
    /\ batch.kind = "none"
    /\ Returned
    /\ UNCHANGED batchVars

Next ==
    \/ \E o \in Orbitals, np \in 0..MaxPoints : Begin(o, np)
    \/ \E draws \in [1..EstSamples -> EstDraws] : Estimate(draws)
    \/ \E c \in Candidates, ua \in AcceptDraws : Attempt(c, ua)
    \/ LoopExit
    \/ Return

Spec == Init /\ [][Next]_vars

(***************************************************************************)
(* SpecCache: getMaxProbability and clearProbabilityCache, called in any   *)
(* order on the module's map.                                              *)
(***************************************************************************)
FindSamples == 2

\* The Math.random() values of one pass of findMaxProbability
FindDraws ==
    {[u |-> R0, ut |-> Rat(1, 2), up |-> R0],
     [u |-> Rat(1, 8), ut |-> Rat(4, 5), up |-> R0],
     [u |-> Rat(1, 4), ut |-> Rat(1, 2), up |-> Rat(1, 4)]}

CacheOrbitals == {Orbital(1, 0, 0, 1), Orbital(1, 0, 0, 2), Orbital(2, 1, 1, 1)}

GotMaxProbability(o, res) ==
    /\ fn' = "getMaxProbability"
    /\ fargs' = o
    /\ fret' = res.ret
    /\ fwarn' = <<>>
    /\ factorialCache' = res.cache
    /\ maxProbabilityCache' = res.map
    /\ estimated' = res.estimated
    /\ UNCHANGED <<samplerVars, lastTry, batchVars, uiVars>>

GetMaxProbability(o, draws) ==
    /\ fn = "none"
    /\ \E res \in {getMaxProbability(maxProbabilityCache, factorialCache, o, draws)} :
           GotMaxProbability(o, res)

\* lines 104-106
ClearProbabilityCache ==
    /\ fn = "none"
    /\ fn' = "clearProbabilityCache"
    /\ fargs' = <<>>
    /\ fret' = 0
    /\ fwarn' = <<>>
    /\ maxProbabilityCache' = <<>>
    /\ estimated' = FALSE
    /\ UNCHANGED <<factorialCache, samplerVars, lastTry, batchVars, uiVars>>

NextCache ==
    \/ \E o \in CacheOrbitals, draws \in [1..FindSamples -> FindDraws] :
           GetMaxProbability(o, draws)
    \/ ClearProbabilityCache
    \/ FnReturn

SpecCache == Init /\ [][NextCache]_vars

(***************************************************************************)
(* FairSpec: sampleOrbital with the densities left open.  What             *)
(* estimateMaxProbability returns and what the rejection test at line 197  *)
(* decides are drawn freely, so every run of the loop in Spec is a run of  *)
(* the loop here.  The function is sequential code: a step that can be     *)
(* taken is taken (weak fairness of the next-state relation).              *)
(***************************************************************************)
MaxFairPoints == 1  \* numPoints in 0 .. MaxFairPoints

FairOrbitals == {Orbital(1, 0, 0, 1), Orbital(0, 0, 0, 1)}

\* Densities that stand for the values probabilityDensity can produce
OpenDensities == {ZeroDensity, MkDensity(R1, RInt(-1))}

\* line 169, the ceiling being any of OpenDensities
EstimateOpen(ceiling) ==
    /\ pc = "estimate"
    /\ Estimated([ret |-> ceiling, cache |-> factorialCache, warn |-> {}])

\* lines 175-208, the test of line 197 being decided by acc
AttemptOpen(c, w, acc) ==
    /\ pc = "loop"
    /\ loopGuard(pointIndex, attempts, numPoints)
    /\ UNCHANGED lastTry
    /\ \E r \in {RMul(MaxR, RCbrt(c.u))},
          theta \in {Acos(RSub(RMul(RInt(2), c.ut), R1))},
          phi \in {RMul(c.up, RInt(2))},
          W \in {[ret |-> w, cache |-> factorialCache, warn |-> {}]} :
           IF acc
           THEN \E st \in {storePoint(points, pointIndex,
                                       sphericalToCartesian(r, theta, phi))} :
                    Accept(r, theta, phi, W, st)
           ELSE Reject(W)

NextFair ==
    \/ \E o \in FairOrbitals, np \in 0..MaxFairPoints : Begin(o, np)
    \/ \E ceiling \in OpenDensities : EstimateOpen(ceiling)
    \/ \E c \in Candidates, w \in OpenDensities, acc \in BOOLEAN :
           AttemptOpen(c, w, acc)
    \/ LoopExit
    \/ Return

FairSpec == Init /\ [][NextFair]_vars /\ WF_vars(NextFair)

(***************************************************************************)
(* SpecBatch: sampleSubshell and sampleMultipleOrbitals.  Each runs         *)
(* sampleOrbital once per orbital, one call after the other; the sampler's *)
(* densities are left open as in FairSpec.                                 *)
(***************************************************************************)
MaxPerElectron == 1     \* pointsPerElectron in 1 .. MaxPerElectron

\* The subshells sampled: 1s and 2p.  With 2l + 1 in {1, 3} the double
\* rounding of electronsPerOrbital * k / electronsPerOrbital gives k for
\* every k in 0 .. 2l + 1, as the exact quotient of scaledBack does.
Subshells == {[n |-> 1, l |-> 0], [n |-> 2, l |-> 1]}

\* The orbital lists sampleMultipleOrbitals is called with
OrbitalLists ==
    {<<>>,
     <<[n |-> 1, l |-> 0, m |-> 0, electrons |-> 2]>>,
     <<[n |-> 1, l |-> 0, m |-> 0, electrons |-> 1],
       [n |-> 2, l |-> 1, m |-> 0, electrons |-> 1]>>,
     <<[n |-> 1, l |-> 0, m |-> 0, electrons |-> 1],
       [n |-> 1, l |-> 0, m |-> 0, electrons |-> 2]>>,
     <<[n |-> 1, l |-> 0, m |-> 0, electrons |-> 2],
       [n |-> 2, l |-> 1, m |-> 0, electrons |-> 1],
       [n |-> 1, l |-> 0, m |-> 0, electrons |-> 1]>>}

BatchCandidates == {[u |-> Rat(1, 64), ut |-> Rat(1, 2), up |-> Rat(1, 4)]}
BatchDensities == {MkDensity(R1, RInt(-1))}

BatchIdle == pc = "idle" /\ fn = "none" /\ batch.kind = "none"

BatchStep == UNCHANGED <<factorialCache, fnVars, samplerVars, lastTry, cacheVars, uiVars>>

\* sampleSubshell, lines 290-294
CallSampleSubshell(n, l, totalElectrons, pointsPerElectron, Z) ==
    /\ BatchIdle
    /\ batch' = [kind |-> "sampleSubshell", done |-> FALSE, n |-> n, l |-> l,
                 totalElectrons |-> totalElectrons,
                 pointsPerElectron |-> pointsPerElectron, Z |-> Z, m |-> -l]
    /\ results' = <<>>
    /\ BatchStep

SubshellLoop == batch.kind = "sampleSubshell" /\ ~batch.done /\ batch.m <= batch.l

SubshellElectrons == electronsInThisOrbital(batch.l, batch.totalElectrons, batch.m)

\* lines 296-304 with the test false: the next m
SubshellSkip ==
    /\ SubshellLoop
    /\ pc = "idle"
    /\ ~(SubshellElectrons > 0)
    /\ batch' = [batch EXCEPT !.m = @ + 1]
    /\ UNCHANGED results
    /\ BatchStep

\* lines 304-309: the call of sampleOrbital
SubshellSample ==
    /\ SubshellLoop
    /\ SubshellElectrons > 0
    /\ Begin(Orbital(batch.n, batch.l, batch.m, batch.Z),
             RCeil(RMul(RInt(batch.pointsPerElectron), RInt(SubshellElectrons))))

\* lines 306-310: results.push with what sampleOrbital returned
SubshellPush ==
    /\ SubshellLoop
    /\ Returned
    /\ results' = Append(results, [m |-> batch.m, electrons |-> SubshellElectrons,
                                   points |-> returned])
    /\ batch' = [batch EXCEPT !.m = @ + 1]

\* line 314
SubshellReturn ==
    /\ batch.kind = "sampleSubshell"
    /\ ~batch.done
    /\ pc = "idle"
    /\ batch.m > batch.l
    /\ batch' = [batch EXCEPT !.done = TRUE]
    /\ UNCHANGED results
    /\ BatchStep

\* sampleMultipleOrbitals, lines 265-266
CallSampleMultipleOrbitals(orbitals, pointsPerElectron, Z) ==
    /\ BatchIdle
    /\ batch' = [kind |-> "sampleMultipleOrbitals", done |-> FALSE,
                 orbitals |-> orbitals, pointsPerElectron |-> pointsPerElectron,
                 Z |-> Z, i |-> 1]
    /\ results' = <<>>
    /\ BatchStep

MultiLoop ==
    batch.kind = "sampleMultipleOrbitals" /\ ~batch.done /\ batch.i <= Len(batch.orbitals)

MultiOrbital == batch.orbitals[batch.i]

\* lines 268-272: the call of sampleOrbital
MultiSample ==
    /\ MultiLoop
    /\ Begin(Orbital(MultiOrbital.n, MultiOrbital.l, MultiOrbital.m, batch.Z),
             batch.pointsPerElectron * MultiOrbital.electrons)

\* line 272: results.set with what sampleOrbital returned; job is history,
\* the place in the list of the orbital the entry was sampled for
MultiSet ==
    /\ MultiLoop
    /\ Returned
    /\ results' = mapSet(results, orbitalKey(MultiOrbital),
                         [points |-> returned, job |-> batch.i])
    /\ batch' = [batch EXCEPT !.i = @ + 1]

\* line 275
MultiReturn ==
    /\ batch.kind = "sampleMultipleOrbitals"
    /\ ~batch.done
    /\ pc = "idle"
    /\ batch.i > Len(batch.orbitals)
    /\ batch' = [batch EXCEPT !.done = TRUE]
    /\ UNCHANGED results
    /\ BatchStep

\* The caller takes the results; the next call starts from here.
BatchTaken ==
    /\ batch.done
    /\ batch' = NoBatch
    /\ results' = <<>>
    /\ BatchStep

NextBatch ==
    \/ \E s \in Subshells, pointsPerElectron \in 1..MaxPerElectron :
           \E totalElectrons \in 0..(2 * (2 * s.l + 1)) :
               CallSampleSubshell(s.n, s.l, totalElectrons, pointsPerElectron, 1)
    \/ SubshellSkip
    \/ SubshellSample
    \/ SubshellPush
    \/ SubshellReturn
    \/ \E orbitals \in OrbitalLists, pointsPerElectron \in 1..MaxPerElectron :
           CallSampleMultipleOrbitals(orbitals, pointsPerElectron, 1)
    \/ MultiSample
    \/ MultiSet
    \/ MultiReturn
    \/ BatchTaken
    \/ \E ceiling \in BatchDensities : EstimateOpen(ceiling)
    \/ \E c \in BatchCandidates, w \in BatchDensities, acc \in BOOLEAN :
           AttemptOpen(c, w, acc)
    \/ LoopExit

SpecBatch == Init /\ [][NextBatch]_vars

(***************************************************************************)
(* SpecMixed: calls of sampleOrbital in any order, with calls of           *)
(* factorial, getMaxProbability and clearProbabilityCache between them.    *)
(* sampleOrbital is synchronous, so another call starts only when no       *)
(* sampling is running.                                                    *)
(***************************************************************************)
MaxMixedPoints == 1

\* 2s needs factorial(2) and 2p factorial(3): either leaves the memo table
\* longer for the other
MixedOrbitals == {Orbital(2, 0, 0, 2), Orbital(2, 1, 1, 1)}

\* The pre-sampling draws: the same values in every pass
MixedEstDraws == {[i \in 1..EstSamples |-> d] : d \in EstDraws}

MixedFactorials == {2, 4}

\* The getMaxProbability calls made between samplings
MixedCached == {Orbital(2, 1, 1, 1)}
MixedFindDraws ==
    {[i \in 1..FindSamples |-> [u |-> Rat(1, 8), ut |-> Rat(4, 5), up |-> R0]]}

BetweenSamplings == pc = "idle"

FactorialBetween(n) == BetweenSamplings /\ CallFactorial(n)

GetMaxProbabilityBetween(o, draws) == BetweenSamplings /\ GetMaxProbability(o, draws)

ClearProbabilityCacheBetween == BetweenSamplings /\ ClearProbabilityCache

NextMixed ==
    \/ \E o \in MixedOrbitals, np \in 1..MaxMixedPoints : Begin(o, np)
    \/ \E draws \in MixedEstDraws : Estimate(draws)
    \/ \E c \in Candidates, ua \in AcceptDraws : Attempt(c, ua)
    \/ LoopExit
    \/ Return
    \/ \E n \in MixedFactorials : FactorialBetween(n)
    \/ \E o \in MixedCached, draws \in MixedFindDraws :
           GetMaxProbabilityBetween(o, draws)
    \/ ClearProbabilityCacheBetween
    \/ FnReturn

SpecMixed == Init /\ [][NextMixed]_vars

(***************************************************************************)
(* SpecAdapt: one long call of sampleOrbital, past the 1000 attempts after *)
(* which line 205 can act.  The densities are left open as in FairSpec and *)
(* the ceiling is not 0 (twice 0 is 0).  The run is followed for           *)
(* MaxAdaptive attempts after the first 1000.                              *)
(***************************************************************************)
AdaptPoints == 11       \* numPoints: 11 * AttemptFactor > AdaptAfter
MaxAdaptive == 3

AdaptOrbitals == {Orbital(1, 0, 0, 1)}
AdaptCeiling == MkDensity(R1, RInt(-1))

AttemptAdaptive(c, w, acc) ==
    /\ attempts < AdaptAfter + MaxAdaptive
    /\ AttemptOpen(c, w, acc)

NextAdapt ==
    \/ \E o \in AdaptOrbitals : Begin(o, AdaptPoints)
    \/ EstimateOpen(AdaptCeiling)
    \/ \E c \in BatchCandidates, w \in BatchDensities, acc \in BOOLEAN :
           AttemptAdaptive(c, w, acc)
    \/ LoopExit
    \/ Return

SpecAdapt == Init /\ [][NextAdapt]_vars

(***************************************************************************)
(* Properties of sampleOrbital (Spec, FairSpec)                            *)
(***************************************************************************)
REq(a, b) == a[1] * b[2] = b[1] * a[2]

Budget == numPoints * AttemptFactor

\* The coordinates of the i-th accepted point
AcceptedXYZ(i) == sphericalToCartesian(accepted[i].r, accepted[i].theta, accepted[i].phi)

\* buf holds the accepted points, in the order of their acceptance
HoldsAccepted(buf) ==
    /\ Len(buf) >= 3 * Len(accepted)
    /\ \A i \in 1..Len(accepted) :
           /\ buf[3 * i - 2] = AcceptedXYZ(i).x
           /\ buf[3 * i - 1] = AcceptedXYZ(i).y
           /\ buf[3 * i] = AcceptedXYZ(i).z

\* C1: the buffer sampleOrbital returns is never longer than pointCount * 3
\* and its length is a multiple of 3; the write index only ever advances by
\* whole x,y,z triples and stays within the buffer.
C1_BufferLength ==
    /\ pointIndex % 3 = 0
    /\ pointIndex <= numPoints * 3
    /\ pointIndex = 3 * Len(accepted)
    /\ pc = "done" => /\ Len(returned) <= numPoints * 3
                      /\ Len(returned) % 3 = 0

\* A call that returned a full buffer of two points
C1_Witness ==
    /\ pc = "done"
    /\ numPoints = 2
    /\ Len(returned) = 6
    /\ Len(accepted) = 2

\* C2: sampleOrbital terminates, it never makes more than numPoints * 100
\* attempts, and it leaves the loop before the budget is used up only when
\* numPoints points have been accepted.
C2_BudgetAndTermination ==
    /\ [](/\ attempts <= Budget
          /\ (pc = "done" /\ attempts < Budget) => Len(accepted) = numPoints)
    /\ (pc = "estimate") ~> (pc = "done")

\* A call that used its whole budget of 100 attempts and accepted nothing
C2_Witness ==
    /\ pc = "done"
    /\ numPoints = 1
    /\ attempts = 100
    /\ accepted = <<>>

C4_AcceptedBelowCeiling ==
    \A i \in 1..Len(accepted) : ~DLess(accepted[i].ceiling, accepted[i].w)

\* The 1s orbital: a ceiling pre-sampled away from the peak, and a point
\* accepted at the peak with a weighted density above it
C4_Witness ==
    /\ orb = Orbital(1, 0, 0, 1)
    /\ maxP # ZeroDensity
    /\ \E i \in 1..Len(accepted) :
           /\ accepted[i].ceiling # ZeroDensity
           /\ DLess(accepted[i].ceiling, accepted[i].w)

\* C6: invalid quantum numbers are not fatal: the ceiling is 0, no candidate
\* is accepted, and the call returns the empty buffer after exactly
\* pointCount * 100 attempts; every call returns a buffer of the points it
\* accepted.
C6_InvalidOrbitalEmptyBuffer ==
    /\ (pc \in {"loop", "done"} /\ ~IsValid(orb)) =>
           /\ maxP = ZeroDensity
           /\ accepted = <<>>
           /\ pointIndex = 0
           /\ warned # {}
    /\ pc = "done" => Len(returned) = pointIndex
    /\ (pc = "done" /\ ~IsValid(orb)) =>
           /\ returned = <<>>
           /\ attempts = Budget

\* An invalid orbital, two points asked for: 200 attempts, nothing returned
C6_Witness ==
    /\ pc = "done"
    /\ ~IsValid(orb)
    /\ numPoints = 2
    /\ attempts = 200
    /\ returned = <<>>

(***************************************************************************)
(* Properties of the wave functions (SpecFn)                               *)
(***************************************************************************)
InvalidRadial(a) == a.n < 1 \/ a.l < 0 \/ a.l >= a.n

InvalidAngular(a) == a.l < 0 \/ Abs(a.m) > a.l

\* C5: a tuple that violates n >= 1, 0 <= l < n or |m| <= l makes the
\* offending evaluation return exactly 0 and warn: radialWaveFunction for
\* n < 1, l < 0 or l >= n, sphericalHarmonic for l < 0 or |m| > l, and so
\* probabilityDensity is 0 for every invalid tuple.
C5_InvalidTupleIsZero ==
    /\ (fn = "radialWaveFunction" /\ InvalidRadial(fargs)) =>
           /\ fret = ZeroRadial
           /\ fwarn = <<[msg |-> "Invalid quantum numbers", n |-> fargs.n,
                         l |-> fargs.l]>>
    /\ (fn = "sphericalHarmonic" /\ InvalidAngular(fargs)) =>
           /\ fret = ZeroAngular
           /\ fwarn = <<[msg |-> "Invalid quantum numbers", l |-> fargs.l,
                         m |-> fargs.m]>>
    /\ (fn = "probabilityDensity" /\ (InvalidRadial(fargs) \/ InvalidAngular(fargs))) =>
           /\ fret = ZeroDensity
           /\ fwarn # <<>>

\* probabilityDensity of (1, 1, 0): l >= n, caught by radialWaveFunction
C5_Witness ==
    /\ fn = "probabilityDensity"
    /\ fargs.n = 1 /\ fargs.l = 1 /\ fargs.m = 0
    /\ fargs.r = RInt(1)
    /\ fret = ZeroDensity
    /\ Len(fwarn) = 1

RECURSIVE FactorialRef(_)
FactorialRef(i) == IF i <= 0 THEN 1 ELSE i * FactorialRef(i - 1)

\* C7: after any calls of factorial the memo table holds i! at every index
\* i below its length, it never shrinks and no entry is ever rewritten;
\* factorial(k) returns k! for k >= 0 and 1 for k < 0, whatever calls
\* preceded it.
C7_FactorialMemo ==
    /\ [](/\ \A i \in 1..Len(factorialCache) : factorialCache[i] = FactorialRef(i - 1)
          /\ fn = "factorial" =>
                 fret = IF fargs.k < 0 THEN 1 ELSE FactorialRef(fargs.k))
    /\ [][/\ Len(factorialCache') >= Len(factorialCache)
          /\ \A i \in 1..Len(factorialCache) : factorialCache'[i] = factorialCache[i]]_vars

\* factorial(4) answered from a table that an earlier call grew up to 6!
C7_Witness ==
    /\ fn = "factorial"
    /\ fargs.k = 4
    /\ fret = 24
    /\ Len(factorialCache) = 7

RECURSIVE LaguerreRef(_, _, _)
LaguerreRef(j, alpha, x) ==
    IF j = 0 THEN R1
    ELSE IF j = 1 THEN RSub(RInt(1 + alpha), x)
    ELSE RDiv(RSub(RMul(RSub(RInt(2 * j - 1 + alpha), x), LaguerreRef(j - 1, alpha, x)),
                   RMul(RInt(j - 1 + alpha), LaguerreRef(j - 2, alpha, x))),
              RInt(j))

\* C8: laguerrePolynomial(k, alpha, x) is the value of the recurrence
\* L_0 = 1, L_1 = 1 + alpha - x,
\* L_j = ((2j - 1 + alpha - x) L_{j-1} - (j - 1 + alpha) L_{j-2}) / j;
\* in particular L_2^1(x) = (x^2 - 6x + 6) / 2.
C8_LaguerreRecurrence ==
    fn = "laguerrePolynomial" =>
        /\ REq(fret, LaguerreRef(fargs.n, fargs.alpha, fargs.x))
        /\ fargs.n = 0 => REq(fret, R1)
        /\ fargs.n = 1 => REq(fret, RSub(RInt(1 + fargs.alpha), fargs.x))
        /\ (fargs.n = 2 /\ fargs.alpha = 1) =>
               REq(fret, RDiv(RAdd(RSub(RMul(fargs.x, fargs.x),
                                        RMul(RInt(6), fargs.x)),
                                   RInt(6)),
                              RInt(2)))

\* L_2^1(3) = -3/2
C8_Witness ==
    /\ fn = "laguerrePolynomial"
    /\ fargs.n = 2 /\ fargs.alpha = 1 /\ fargs.x = RInt(3)
    /\ fret = Rat(-3, 2)

RECURSIVE DoubleFactorialRef(_)
DoubleFactorialRef(m) == IF m <= 0 THEN 1 ELSE (2 * m - 1) * DoubleFactorialRef(m - 1)

\* P_l^m for 0 <= m <= l, from the seed and the recurrence
RECURSIVE LegendreRef(_, _, _)
LegendreRef(l, m, x) ==
    IF l = m
    THEN RMul(RInt(RPow(RInt(-1), m)[1] * DoubleFactorialRef(m)),
              RPow(RSqrt(RSub(R1, RMul(x, x))), m))
    ELSE IF l = m + 1
    THEN RMul(RMul(x, RInt(2 * m + 1)), LegendreRef(m, m, x))
    ELSE RDiv(RSub(RMul(RMul(x, RInt(2 * l - 1)), LegendreRef(l - 1, m, x)),
                   RMul(RInt(l + m - 1), LegendreRef(l - 2, m, x))),
              RInt(l - m))

\* C9: legendrePolynomial(l, m, x) is 0 when |m| > l, depends on m only
\* through |m|, and for |m| <= l is the value built from the seed P_m^m, the
\* step P_{m+1}^m = x (2m + 1) P_m^m and the upward recurrence; P_l^0(1) = 1
\* and P_l^m(1) = P_l^m(-1) = 0 for m > 0.
C9_LegendreRecurrence ==
    fn = "legendrePolynomial" =>
        /\ Abs(fargs.m) > fargs.l => fret = R0
        /\ REq(fret, legendrePolynomial(fargs.l, -fargs.m, fargs.x))
        /\ Abs(fargs.m) <= fargs.l =>
               REq(fret, LegendreRef(fargs.l, Abs(fargs.m), fargs.x))
        /\ (fargs.m = 0 /\ fargs.x = RInt(1)) => REq(fret, R1)
        /\ (fargs.m # 0 /\ fargs.x \in {RInt(1), RInt(-1)}) => REq(fret, R0)

\* P_2^1(3/5) = -3 * (3/5) * (4/5) = -36/25, asked for with m = -1
C9_Witness ==
    /\ fn = "legendrePolynomial"
    /\ fargs.l = 2 /\ fargs.m = -1 /\ fargs.x = Rat(3, 5)
    /\ fret = Rat(-36, 25)

\* C10: radialNormalization has the closed-form values 2, 1/sqrt(2) and
\* 1/(2 sqrt(6)) for (1,0,1), (2,0,1) and (2,1,1): its square is 4, 1/2 and
\* 1/24.
C10_ClosedFormNormalization ==
    (fn = "radialNormalization" /\ fargs.Z = 1) =>
        /\ (fargs.n = 1 /\ fargs.l = 0) => REq(fret, RInt(4))
        /\ (fargs.n = 2 /\ fargs.l = 0) => REq(fret, Rat(1, 2))
        /\ (fargs.n = 2 /\ fargs.l = 1) => REq(fret, Rat(1, 24))

\* C10, as the code computes it: the squares are 4, 1/32 and 1/864
C10_CodeValues ==
    (fn = "radialNormalization" /\ fargs.Z = 1) =>
        /\ (fargs.n = 1 /\ fargs.l = 0) => REq(fret, RInt(4))
        /\ (fargs.n = 2 /\ fargs.l = 0) => REq(fret, Rat(1, 32))
        /\ (fargs.n = 2 /\ fargs.l = 1) => REq(fret, Rat(1, 864))

\* radialNormalization(2, 0, 1), whose square is 1/32
C10_Witness ==
    /\ fn = "radialNormalization"
    /\ fargs = [n |-> 2, l |-> 0, Z |-> 1]
    /\ fret = Rat(1, 32)

(***************************************************************************)
(* The hydrogen radial functions (SpecFn)                                  *)
(***************************************************************************)
\* The square of the factor of exp in a radial value, and the factor's sign
RadialFactorSq(v) == RMul(v.s, RMul(v.q, v.q))
RSign(a) == IF a[1] > 0 THEN 1 ELSE IF a[1] < 0 THEN -1 ELSE 0

\* C11: radialWaveFunction(1, 0, r, 1) is 2 exp(-r) for r in {0, 1, 2}: the
\* factor N rho^l L(rho) is exactly 2 and the exponent -rho / 2 exactly -r.
C11_Hydrogen1s ==
    (fn = "radialWaveFunction" /\ fargs.n = 1 /\ fargs.l = 0 /\ fargs.Z = 1) =>
        /\ REq(RMul(RSqrt(fret.s), fret.q), RInt(2))
        /\ REq(fret.e, RNeg(fargs.r))

\* radialWaveFunction(1, 0, 2, 1) = 2 exp(-2)
C11_Witness ==
    /\ fn = "radialWaveFunction"
    /\ fargs = [n |-> 1, l |-> 0, r |-> RInt(2), Z |-> 1]
    /\ fret = [s |-> RInt(4), q |-> R1, e |-> RInt(-2)]

\* C12: radialWaveFunction(2, 0, r, 1) is (1/sqrt 2)(1 - r/2) exp(-r/2) for r
\* in {0, 1, 2}, 0 at the node r = 2, and radialWaveFunction(2, 1, r, 1) is
\* (1/(2 sqrt 6)) r exp(-r/2): the factor of exp has the closed form's
\* sign and square, (1/2)(1 - r/2)^2 and r^2 / 24.
C12_Hydrogen2s2p ==
    (fn = "radialWaveFunction" /\ fargs.n = 2 /\ fargs.Z = 1 /\ fargs.l \in {0, 1}) =>
        /\ fargs.l = 0 =>
               /\ RSign(fret.q) = RSign(RSub(R1, RDiv(fargs.r, RInt(2))))
               /\ REq(RadialFactorSq(fret),
                      RMul(Rat(1, 2), RPow(RSub(R1, RDiv(fargs.r, RInt(2))), 2)))
        /\ fargs.l = 1 =>
               /\ RSign(fret.q) = RSign(fargs.r)
               /\ REq(RadialFactorSq(fret), RMul(Rat(1, 24), RMul(fargs.r, fargs.r)))
        /\ fret # ZeroRadial => REq(fret.e, RDiv(RNeg(fargs.r), RInt(2)))

\* C12, as the code computes it: the node and the exponent are as claimed,
\* the factor of exp is 1/2 of the 2s closed form and 1/6 of the 2p one
\* (squares (1/8)(1 - r/2)^2 and r^2 / 864)
C12_CodeValues ==
    (fn = "radialWaveFunction" /\ fargs.n = 2 /\ fargs.Z = 1 /\ fargs.l \in {0, 1}) =>
        /\ fargs.l = 0 =>
               /\ RSign(fret.q) = RSign(RSub(R1, RDiv(fargs.r, RInt(2))))
               /\ REq(RadialFactorSq(fret),
                      RMul(Rat(1, 8), RPow(RSub(R1, RDiv(fargs.r, RInt(2))), 2)))
        /\ fargs.l = 1 =>
               /\ RSign(fret.q) = RSign(fargs.r)
               /\ REq(RadialFactorSq(fret), RMul(Rat(1, 864), RMul(fargs.r, fargs.r)))
        /\ fret # ZeroRadial => REq(fret.e, RDiv(RNeg(fargs.r), RInt(2)))

\* radialWaveFunction(2, 0, 0, 1) = sqrt(1/32) * 2 = 0.3536, not 0.7071
C12_Witness ==
    /\ fn = "radialWaveFunction"
    /\ fargs = [n |-> 2, l |-> 0, r |-> R0, Z |-> 1]
    /\ fret = [s |-> Rat(1, 32), q |-> RInt(2), e |-> R0]

(***************************************************************************)
(* Properties of the max-probability cache (SpecCache)                     *)
(***************************************************************************)
\* The entries of before are all in after, with their values
KeepsEntries(before, after) ==
    \A k \in DOMAIN before : k \in DOMAIN after /\ after[k] = before[k]

\* C13: a getMaxProbability for a key that has an entry returns the stored
\* value, runs no estimate and leaves the map as it is; one for a key with no
\* entry runs the estimate once and stores what it returns, keeping every
\* other entry; clearProbabilityCache empties the map, and no other step
\* removes or changes an entry.
C13_CacheOncePerKey ==
    [][/\ (fn' = "getMaxProbability" /\ cacheKey(fargs') \in DOMAIN maxProbabilityCache) =>
            /\ fret' = maxProbabilityCache[cacheKey(fargs')]
            /\ ~estimated'
            /\ maxProbabilityCache' = maxProbabilityCache
       /\ (fn' = "getMaxProbability" /\ cacheKey(fargs') \notin DOMAIN maxProbabilityCache) =>
            /\ estimated'
            /\ DOMAIN maxProbabilityCache' = (DOMAIN maxProbabilityCache) \cup {cacheKey(fargs')}
            /\ maxProbabilityCache'[cacheKey(fargs')] = fret'
            /\ KeepsEntries(maxProbabilityCache, maxProbabilityCache')
       /\ (fn' = "clearProbabilityCache") => DOMAIN maxProbabilityCache' = {}
       /\ (fn' # "clearProbabilityCache") =>
            KeepsEntries(maxProbabilityCache, maxProbabilityCache')]_vars

\* A later call for a key returned the stored value with two other keys in
\* the map
C13_Witness ==
    /\ fn = "getMaxProbability"
    /\ ~estimated
    /\ Cardinality(DOMAIN maxProbabilityCache) = 3
    /\ fret = maxProbabilityCache[cacheKey(fargs)]
    /\ fret # ZeroDensity

(***************************************************************************)
(* Properties of sampleSubshell and sampleMultipleOrbitals (SpecBatch)     *)
(***************************************************************************)
RECURSIVE SumElectrons(_, _)
SumElectrons(entries, i) ==
    IF i > Len(entries) THEN 0 ELSE entries[i].electrons + SumElectrons(entries, i + 1)

SubshellDone == batch.kind = "sampleSubshell" /\ batch.done

\* C14: when sampleSubshell returns, the electrons of the returned orbitals
\* sum to totalElectrons, and an orbital has 2 electrons only if all 2l + 1
\* orbitals of the subshell are returned (each with at least 1).
C14_SubshellDistribution ==
    SubshellDone =>
        /\ SumElectrons(results, 1) = batch.totalElectrons
        /\ \A i \in 1..Len(results) :
               results[i].electrons = 2 => Len(results) = 2 * batch.l + 1

\* What the code returns on the subshells sampled: no orbital for 0
\* electrons, and otherwise all 2l + 1 orbitals in the order of m with 1
\* electron each, whatever totalElectrons is.
C14_CodeValues ==
    SubshellDone =>
        IF batch.totalElectrons = 0 THEN results = <<>>
        ELSE /\ Len(results) = 2 * batch.l + 1
             /\ \A i \in 1..Len(results) :
                    /\ results[i].m = i - batch.l - 1
                    /\ results[i].electrons = 1

\* sampleSubshell(1, 0, 2, 1) returned the 1s orbital with 1 electron
C14_Witness ==
    /\ SubshellDone
    /\ batch.l = 0
    /\ batch.totalElectrons = 2
    /\ Len(results) = 1
    /\ results[1].electrons = 1

MultiDone == batch.kind = "sampleMultipleOrbitals" /\ batch.done

\* The entry e under key k was sampled for the last orbital of the list with
\* that key, and is a run of x,y,z triples no longer than the points asked
\* for it
LastOccurrence(k, e) ==
    /\ e.job \in 1..Len(batch.orbitals)
    /\ orbitalKey(batch.orbitals[e.job]) = k
    /\ \A j \in (e.job + 1)..Len(batch.orbitals) : orbitalKey(batch.orbitals[j]) # k
    /\ Len(e.points) % 3 = 0
    /\ Len(e.points) <= 3 * batch.pointsPerElectron * batch.orbitals[e.job].electrons

\* C15: when sampleMultipleOrbitals returns, the map has exactly one entry
\* per distinct (n,l,m) of the list, under the key of (n,l,m); the entry is
\* what sampleOrbital returned for the last orbital of the list with that
\* (n,l,m), asked for pointsPerElectron * electrons points: a multiple of 3
\* values, at most 3 * pointsPerElectron * electrons.  Every results.set
\* stores the buffer sampleOrbital just returned and leaves the other
\* entries alone.
C15_OneEntryPerOrbital ==
    /\ [](MultiDone =>
            /\ DOMAIN results =
                   {orbitalKey(batch.orbitals[i]) : i \in 1..Len(batch.orbitals)}
            /\ \A k \in DOMAIN results : LastOccurrence(k, results[k]))
    /\ [][(MultiLoop /\ batch' # batch) =>
            /\ numPoints = batch.pointsPerElectron * MultiOrbital.electrons
            /\ orb = Orbital(MultiOrbital.n, MultiOrbital.l, MultiOrbital.m, batch.Z)
            /\ results'[orbitalKey(MultiOrbital)].points = returned
            /\ \A k \in (DOMAIN results) \ {orbitalKey(MultiOrbital)} :
                   k \in DOMAIN results' /\ results'[k] = results[k]]_vars

\* The list named 1s twice, for 1 and then for 2 electrons, and the 1s entry
\* holds the two points sampled for the second
C15_Witness ==
    /\ MultiDone
    /\ Len(batch.orbitals) = 2
    /\ DOMAIN results = {<<1, 0, 0>>}
    /\ results[<<1, 0, 0>>].job = 2
    /\ Len(results[<<1, 0, 0>>].points) = 6

(***************************************************************************)
(* Properties of sampleOrbital among other calls (SpecMixed)               *)
(***************************************************************************)
\* The candidate the draws d propose for the orbital being sampled
TryRadius(d) == RMul(MaxR, RCbrt(d.u))
TryTheta(d) == Acos(RSub(RMul(RInt(2), d.ut), R1))
TryPhi(d) == RMul(d.up, RInt(2))

\* What the attempt with the draws d does to the buffer when the density is
\* computed on a memo table nobody else has touched
FreshAttempt(d) ==
    IF accepts(d.ua, maxP,
               weightedDensity(InitialFactorialCache, orb, TryRadius(d), TryTheta(d),
                               TryPhi(d)).ret)
    THEN storePoint(points, pointIndex,
                    sphericalToCartesian(TryRadius(d), TryTheta(d), TryPhi(d)))
    ELSE [points |-> points, pointIndex |-> pointIndex]

\* C16: whatever was called before (samplings of other orbitals, factorial,
\* getMaxProbability, clearProbabilityCache, in any order), the ceiling the
\* pre-sampling computes and what each attempt does to the buffer are those
\* computed from the orbital's arguments and draws on an untouched memo
\* table, and no other call changes the state of a sampling; so the buffer
\* of an orbital is the same in every order.
C16_OrderIndependent ==
    /\ [](pc = "estimate" =>
            \A draws \in MixedEstDraws :
                /\ estimateMaxProbability(factorialCache, orb, MaxR, draws).ret
                     = estimateMaxProbability(InitialFactorialCache, orb, MaxR, draws).ret
                /\ estimateMaxProbability(factorialCache, orb, MaxR, draws).warn
                     = estimateMaxProbability(InitialFactorialCache, orb, MaxR, draws).warn)
    /\ [][/\ (attempts' = attempts + 1) =>
                 /\ points' = FreshAttempt(lastTry').points
                 /\ pointIndex' = FreshAttempt(lastTry').pointIndex
          /\ (fn' # "none" \/ fn # "none") => UNCHANGED samplerVars]_vars

\* A 2p sampling returned one point after factorial(4) and a
\* getMaxProbability had run
C16_Witness ==
    /\ pc = "done"
    /\ orb = Orbital(2, 1, 1, 1)
    /\ Len(returned) = 3
    /\ Len(factorialCache) = 5
    /\ DOMAIN maxProbabilityCache # {}

(***************************************************************************)
(* Properties of the coordinate conversions (SpecFn)                       *)
(***************************************************************************)
ConvertedBack == fn = "cartesianToSpherical" /\ fargs.from.r[1] > 0

\* C17: cartesianToSpherical of the point sphericalToCartesian made from
\* (r, theta, phi), r > 0, returns (r, theta, phi); cartesianToSpherical of
\* the origin returns r = 0, theta = 0, phi = 0.
C17_MutuallyInverse ==
    /\ ConvertedBack => fret = fargs.from
    /\ (fn = "cartesianToSpherical" /\ fargs.x = R0 /\ fargs.y = R0 /\ fargs.z = R0) =>
           fret = [r |-> R0, theta |-> [cos |-> R1], phi |-> R0]

\* What the code does: r and theta come back; phi comes back in (-pi, pi],
\* so as phi - 2 pi when phi > pi, and is lost where sin(theta) = 0; the
\* origin gives (0, 0, 0).
C17_CodeValues ==
    /\ ConvertedBack =>
           /\ fret.r = fargs.from.r
           /\ fret.theta = fargs.from.theta
           /\ ~RLess(R1, fret.phi) /\ ~RLess(fret.phi, RInt(-1))
           /\ (fargs.x # R0 \/ fargs.y # R0) =>
                  \/ fret.phi = fargs.from.phi
                  \/ fret.phi = RSub(fargs.from.phi, RInt(2))
    /\ (fn = "cartesianToSpherical" /\ fargs.x = R0 /\ fargs.y = R0 /\ fargs.z = R0) =>
           fret = [r |-> R0, theta |-> [cos |-> R1], phi |-> R0]

\* (5, pi/2, 3 pi/2) went to (0, -5, 0) and came back with phi = -pi/2
C17_Witness ==
    /\ fn = "cartesianToSpherical"
    /\ fargs.from = [r |-> RInt(5), theta |-> [cos |-> R0], phi |-> Rat(3, 2)]
    /\ fargs.x = R0 /\ fargs.y = RInt(-5) /\ fargs.z = R0
    /\ fret = [r |-> RInt(5), theta |-> [cos |-> R0], phi |-> Rat(-1, 2)]

(***************************************************************************)
(* Properties of the adaptive ceiling (SpecAdapt)                          *)
(***************************************************************************)
Doubled == maxP' = DScale(maxP, RInt(2))

\* C18: an attempt doubles maxP exactly when it is attempt number 1001 or
\* later and the points accepted so far are fewer than 1% of the attempts
\* made; every other attempt leaves maxP as it is.
C18_DoubledBelowOnePercent ==
    [][(attempts' = attempts + 1) =>
           /\ Doubled <=> (attempts' > AdaptAfter /\ Len(accepted') * 100 < attempts')
           /\ Doubled \/ maxP' = maxP]_vars

\* What line 205 does: it compares pointIndex, three times the points
\* accepted, with 1% of the attempts
C18_CodeValues ==
    [][(attempts' = attempts + 1) =>
           /\ Doubled <=> (attempts' > AdaptAfter /\ Len(accepted') * 3 * 100 < attempts')
           /\ Doubled \/ maxP' = maxP]_vars

\* After 1001 attempts with 4 points accepted (0.4%) the ceiling is the one
\* estimated
C18_Witness ==
    /\ pc = "loop"
    /\ attempts = AdaptAfter + 1
    /\ Len(accepted) = 4
    /\ pointIndex = 12
    /\ maxP = AdaptCeiling

\* C19: when an attempt doubles maxP, every pair of a uniform draw u and a
\* weighted density w that passes the test of line 197 under the ceiling
\* before also passes it under the doubled ceiling.
C19_DoublingAdmitsMore ==
    [][(attempts' = attempts + 1 /\ Doubled) =>
           \A u \in AcceptDraws, w \in OpenDensities :
               accepts(u, maxP, w) => accepts(u, maxP', w)]_vars

\* What the test does: u * maxP < w is harder to pass with maxP doubled, so
\* the pairs that pass under the doubled ceiling are among those that passed
\* before
C19_CodeValues ==
    [][(attempts' = attempts + 1 /\ Doubled) =>
           \A u \in AcceptDraws, w \in OpenDensities :
               accepts(u, maxP', w) => accepts(u, maxP, w)]_vars

\* The ceiling was doubled on attempt 1001, and the draw 1/2 with the
\* density exp(-1) passes under the ceiling exp(-1) estimated but not under
\* the doubled one
C19_Witness ==
    /\ pc = "loop"
    /\ attempts = AdaptAfter + 1
    /\ maxP = DScale(AdaptCeiling, RInt(2))
    /\ accepts(Rat(1, 2), AdaptCeiling, MkDensity(R1, RInt(-1)))
    /\ ~accepts(Rat(1, 2), maxP, MkDensity(R1, RInt(-1)))

(***************************************************************************)
(* Properties of one attempt of the rejection loop (Spec)                  *)
(***************************************************************************)
\* P(r, theta, phi) for the candidate the draws d propose
TryDensity(d) ==
    probabilityDensity(factorialCache, orb.n, orb.l, orb.m, TryRadius(d), TryTheta(d),
                       TryPhi(d), orb.Z).ret

\* u * maxP < P * r^2 * sin(theta), both sides values c * exp(e)
TryPasses(d, P) ==
    DLess([c |-> RMul(d.ua, maxP.c), e |-> maxP.e],
          [c |-> RMul(P.c, RMul(RMul(TryRadius(d), TryRadius(d)), SinOf(TryTheta(d)))),
           e |-> P.e])

TryPoint(d) == sphericalToCartesian(TryRadius(d), TryTheta(d), TryPhi(d))

\* C20: an attempt accepts its candidate exactly when u * maxP is below
\* P(r, theta, phi) * r^2 * sin(theta); when it accepts, the candidate's x, y
\* and z are written at the next three places of the buffer and the count of
\* accepted points grows by one; when it rejects, the buffer and the count
\* stay as they are.  So within a call the count never decreases and grows
\* by at most one per attempt.
C20_AcceptExactlyWhenBelow ==
    [][(attempts' = attempts + 1) =>
           /\ IF TryPasses(lastTry', TryDensity(lastTry'))
              THEN /\ pointIndex' = pointIndex + 3
                   /\ points' = [i \in 1..Len(points) |->
                                    IF i = pointIndex + 1 THEN TryPoint(lastTry').x
                                    ELSE IF i = pointIndex + 2 THEN TryPoint(lastTry').y
                                    ELSE IF i = pointIndex + 3 THEN TryPoint(lastTry').z
                                    ELSE points[i]]
                   /\ Len(accepted') = Len(accepted) + 1
              ELSE /\ pointIndex' = pointIndex
                   /\ points' = points
                   /\ accepted' = accepted
           /\ pointIndex' = 3 * Len(accepted')]_vars

\* Two attempts with the test draw 1/2 last: one candidate rejected, one
\* accepted under a ceiling that is not 0
C20_Witness ==
    /\ pc = "loop"
    /\ attempts = 2
    /\ pointIndex = 3
    /\ Len(accepted) = 1
    /\ lastTry.ua = Rat(1, 2)
    /\ maxP # ZeroDensity
    /\ accepted[1].w # ZeroDensity

(***************************************************************************)
(* SpecAtom: one AtomState, called from outside in any order; each action  *)
(* is one call with every listener it runs.                                *)
(***************************************************************************)
MaxSubscribes == 2
MaxUnsubscribeCalls == 2

\* What the callers pass: the periodic table's symbols, a symbol it does
\* not have, and a name inherited from Object.prototype
Symbols == {"H", "He", "N", "Og", "Xx", "constructor"}

\* Ionization states asked for, inside and outside every element's range
IonizationInputs == {-9, -1, 2, 119}

OtherVars == <<factorialCache, fnVars, samplerVars, lastTry, cacheVars, batchVars>>

\* A call on the instance that ran the listeners of st
AtomCalled(st, op, arg) ==
    /\ atom' = st.atom
    /\ atomLog' = [atomLog EXCEPT !.call = [op |-> op, arg |-> arg],
                                  !.before = atom,
                                  !.log = st.log,
                                  !.warn = st.warn]

CallSetElement ==
    /\ \E symbol \in Symbols :
           AtomCalled(setElement(atom, symbol), "setElement", <<symbol>>)
    /\ UNCHANGED <<renderer, legend, controls, OtherVars>>

CallSetIonization ==
    /\ \E state \in IonizationInputs :
           AtomCalled(setIonization(atom, RInt(state)), "setIonization", <<state>>)
    /\ UNCHANGED <<renderer, legend, controls, OtherVars>>

CallSetOrbitalVisibility ==
    /\ \E visible \in BOOLEAN :
           AtomCalled(setOrbitalVisibility(atom, 1, visible), "setOrbitalVisibility",
                      <<1, visible>>)
    /\ UNCHANGED <<renderer, legend, controls, OtherVars>>

\* AtomState.js lines 22-28: subscribe(listener); the function it returns is
\* kept by the caller, as the next entry of unsubscribes
CallSubscribe ==
    /\ Len(atomLog.unsubscribes) < MaxSubscribes
    /\ \E listener \in {"view", "once", "dim"} :
           /\ atom' = [atom EXCEPT !.listeners = Append(@, listener)]
           /\ atomLog' = [call |-> [op |-> "subscribe", arg |-> <<listener>>],
                          before |-> atom, log |-> <<>>, warn |-> <<>>,
                          unsubscribes |-> Append(atomLog.unsubscribes,
                                                  [listener |-> listener, calls |-> 0])]
    /\ UNCHANGED <<renderer, legend, controls, OtherVars>>

\* A caller calls the k-th function subscribe returned
CallUnsubscribe ==
    /\ \E k \in 1..Len(atomLog.unsubscribes) :
           /\ atomLog.unsubscribes[k].calls < MaxUnsubscribeCalls
           /\ atom' = [atom EXCEPT !.listeners =
                                      unsubscribe(@, atomLog.unsubscribes[k].listener)]
           /\ atomLog' = [call |-> [op |-> "unsubscribe", arg |-> <<k>>],
                          before |-> atom, log |-> <<>>, warn |-> <<>>,
                          unsubscribes |-> [atomLog.unsubscribes EXCEPT ![k].calls = @ + 1]]
    /\ UNCHANGED <<renderer, legend, controls, OtherVars>>

\* ElementInfoPanel.js lines 76-91: the panel's buttons ask for the state one
\* above and one below the current one
CallStepIonization ==
    /\ atom.ionizationState # NaN
    /\ \E delta \in {-1, 1} :
           AtomCalled(setIonization(atom, RAdd(atom.ionizationState, RInt(delta))),
                      "setIonization", <<atom.ionizationState[1] + delta>>)
    /\ UNCHANGED <<renderer, legend, controls, OtherVars>>

\* SpecIonization: setElement and setIonization alone, with every state the
\* panel's buttons lead to
NextIonization ==
    \/ CallSetElement
    \/ CallSetIonization
    \/ CallStepIonization

SpecIonization == InitFn /\ [][NextIonization]_vars

NextAtom ==
    \/ CallSetElement
    \/ CallSetIonization
    \/ CallSetOrbitalVisibility
    \/ CallSubscribe
    \/ CallUnsubscribe

SpecAtom == InitFn /\ [][NextAtom]_vars

(***************************************************************************)
(* Claims on AtomState                                                     *)
(***************************************************************************)
\* The current element is one of the table's
TableElement(a) == a.currentSymbol \in DOMAIN elements

\* a <= b <= c on numbers none of which is NaN
Within(a, b, c) == b # NaN /\ ~RLess(b, a) /\ ~RLess(c, b)

LogOfType(log, changeType) == SelectSeq(log, LAMBDA e : e.changeType = changeType)

\* setElement(symbol) left the three fields alone and called no listener
SetElementIgnored ==
    /\ atom.currentSymbol = atomLog.before.currentSymbol
    /\ atom.ionizationState = atomLog.before.ionizationState
    /\ atom.orbitalVisibility = atomLog.before.orbitalVisibility
    /\ atomLog.log = <<>>

\* setElement(symbol) selected the element and told the listeners once: every
\* 'element' call belongs to the one change and shows the symbol with
\* ionization state 0
SetElementDone(symbol) ==
    /\ atom.currentSymbol = symbol
    /\ atom.ionizationState = R0
    /\ atomLog.before.listeners # <<>> => LogOfType(atomLog.log, "element") # <<>>
    /\ \A i \in 1..Len(atomLog.log) :
           atomLog.log[i].changeType = "element" =>
               /\ atomLog.log[i].change = 1
               /\ atomLog.log[i].state.element.symbol = symbol
               /\ atomLog.log[i].state.ionizationState = R0

\* C22: setElement with a symbol that is not an element leaves currentSymbol,
\* ionizationState and orbitalVisibility unchanged and notifies no listener;
\* with an element's symbol it sets currentSymbol, resets ionizationState to
\* 0 and notifies the listeners once with change type 'element'.
C22_UnknownSymbolIgnored ==
    atomLog.call.op = "setElement" =>
        IF atomLog.call.arg[1] \in DOMAIN elements
        THEN SetElementDone(atomLog.call.arg[1])
        ELSE SetElementIgnored

\* What the code does: the symbols it ignores are those for which
\* elements[symbol] is falsy, which leaves out the names every object
\* inherits
C22_CodeValues ==
    atomLog.call.op = "setElement" =>
        IF getElement(atomLog.call.arg[1]) # Null
        THEN SetElementDone(atomLog.call.arg[1])
        ELSE SetElementIgnored /\ atomLog.warn # <<>>

\* setElement('constructor') was accepted while nitrogen was ionized, and a
\* listener was told
C22_Witness ==
    /\ atomLog.call.op = "setElement" /\ atomLog.call.arg = <<"constructor">>
    /\ atomLog.before.currentSymbol = "N"
    /\ atomLog.before.ionizationState = RInt(2)
    /\ atom.currentSymbol = "constructor"
    /\ atom.ionizationState = R0
    /\ atomLog.log # <<>>
    /\ atomLog.warn = <<>>

\* The last call changed the state: a setElement that was not ignored, a
\* setIonization or a setOrbitalVisibility
StateChanged ==
    \/ atomLog.call.op \in {"setIonization", "setOrbitalVisibility"}
    \/ atomLog.call.op = "setElement" /\ getElement(atomLog.call.arg[1]) # Null

\* The fields right after the assignment of the call, before _notify
PostChange(a, call) ==
    CASE call.op = "setElement" ->
             [a EXCEPT !.currentSymbol = call.arg[1], !.ionizationState = R0]
      [] call.op = "setIonization" ->
             [a EXCEPT !.ionizationState =
                           JMax(RInt(-8), JMin(getElement(a.currentSymbol).atomicNumber,
                                               RInt(call.arg[1])))]
      [] call.op = "setOrbitalVisibility" ->
             [a EXCEPT !.orbitalVisibility[call.arg[1]] = call.arg[2]]
      [] OTHER -> a

\* The calls of listeners made for the change the call itself made
FirstChange(log) == SelectSeq(log, LAMBDA e : e.change = 1)

\* The listeners called, in the order of the calls
ListenersOf(log) == [i \in 1..Len(log) |-> log[i].listener]

SeqRange(list) == {list[i] : i \in 1..Len(list)}

\* C23: a state change calls each listener subscribed at that moment exactly
\* once for that change, in subscription order, with the state after the
\* change, whatever the listeners do in their callbacks; nobody else is
\* called.
C23_NotifiesAllListeners ==
    StateChanged =>
        /\ ListenersOf(FirstChange(atomLog.log)) = atomLog.before.listeners
        /\ \A i \in 1..Len(atomLog.log) :
               /\ atomLog.log[i].listener \in SeqRange(atomLog.before.listeners)
               /\ atomLog.log[i].change = 1 =>
                      atomLog.log[i].state =
                          getState(PostChange(atomLog.before, atomLog.call))

\* What the code does: all of that when no listener subscribed unsubscribes
\* inside its callback; when one does, the calls for the change are still
\* made with the state after it and to subscribed listeners only, but not to
\* all of them
C23_CodeValues ==
    StateChanged =>
        /\ "once" \notin SeqRange(atomLog.before.listeners) =>
               ListenersOf(FirstChange(atomLog.log)) = atomLog.before.listeners
        /\ Len(FirstChange(atomLog.log)) <= Len(atomLog.before.listeners)
        /\ \A i \in 1..Len(atomLog.log) :
               /\ atomLog.log[i].listener \in SeqRange(atomLog.before.listeners)
               /\ atomLog.log[i].change = 1 =>
                      atomLog.log[i].state =
                          getState(PostChange(atomLog.before, atomLog.call))

\* The first of two listeners unsubscribed itself in its callback and the
\* second, still subscribed, was never called for the change
C23_Witness ==
    /\ atomLog.call.op = "setIonization"
    /\ atomLog.before.listeners = <<"once", "view">>
    /\ ListenersOf(atomLog.log) = <<"once">>
    /\ atom.listeners = <<"view">>

\* The last call was a call of an unsubscribe function that had been called
\* before
CalledAgain ==
    /\ atomLog.call.op = "unsubscribe"
    /\ atomLog.unsubscribes[atomLog.call.arg[1]].calls >= 2

\* C29: calling the function subscribe returned a second time removes
\* nothing, also when the same callback is subscribed more than once.
C29_UnsubscribeIdempotent ==
    CalledAgain => atom.listeners = atomLog.before.listeners

\* What the code does: every call of the function, the first or a later one,
\* removes the first registration of its callback that is in the array, and
\* removes nothing only when there is none
C29_CodeValues ==
    atomLog.call.op = "unsubscribe" =>
        IF atomLog.unsubscribes[atomLog.call.arg[1]].listener
               \in SeqRange(atomLog.before.listeners)
        THEN /\ Len(atom.listeners) = Len(atomLog.before.listeners) - 1
             /\ \A i \in 1..Len(atom.listeners) :
                    atom.listeners[i] \in SeqRange(atomLog.before.listeners)
        ELSE atom.listeners = atomLog.before.listeners

\* One callback subscribed twice; the first function returned was called
\* twice, the second never, and no registration is left
C29_Witness ==
    /\ atomLog.call.op = "unsubscribe" /\ atomLog.call.arg = <<1>>
    /\ atomLog.unsubscribes = <<[listener |-> "view", calls |-> 2],
                                [listener |-> "view", calls |-> 0]>>
    /\ atomLog.before.listeners = <<"view">>
    /\ atom.listeners = <<>>

(***************************************************************************)
(* Claims on generateElectronConfiguration (SpecFn)                        *)
(***************************************************************************)
\* The orbitals of the subshells of AUFBAU_ORDER from the i-th on, each
\* subshell's from m = -l to m = l
RECURSIVE SlotsFrom(_)
SlotsFrom(i) ==
    IF i > Len(AUFBAU_ORDER) THEN <<>>
    ELSE [k \in 1..(2 * AUFBAU_ORDER[i].l + 1) |->
              [n |-> AUFBAU_ORDER[i].n, l |-> AUFBAU_ORDER[i].l,
               m |-> k - AUFBAU_ORDER[i].l - 1]]
         \o SlotsFrom(i + 1)

RECURSIVE ElectronsFrom(_, _)
ElectronsFrom(config, i) ==
    IF i > Len(config) THEN 0 ELSE config[i].electrons + ElectronsFrom(config, i + 1)

\* The electrons of a configuration
TotalElectrons(config) == ElectronsFrom(config, 1)

OrbitalOf(e) == [n |-> e.n, l |-> e.l, m |-> e.m]

DistinctOrbitals(config) ==
    \A i, j \in 1..Len(config) : OrbitalOf(config[i]) = OrbitalOf(config[j]) => i = j

\* The orbitals are the first ones of the Aufbau order, in that order, and
\* an orbital is begun only when the ones before it hold 2 electrons
InAufbauOrder(config) ==
    /\ Len(config) <= Len(SlotsFrom(1))
    /\ \A i \in 1..Len(config) :
           /\ OrbitalOf(config[i]) = SlotsFrom(1)[i]
           /\ i < Len(config) => config[i].electrons = 2

GeneratedConfiguration == fn = "generateElectronConfiguration"

\* C24: for every electron count from 0 to atomicNumber + 8 with
\* atomicNumber <= 118 the configuration has pairwise distinct (n,l,m), 1 or
\* 2 electrons in each orbital, Aufbau order, and as many electrons as asked
\* for.
C24_SumsToElectronCount ==
    GeneratedConfiguration =>
        /\ DistinctOrbitals(fret)
        /\ \A i \in 1..Len(fret) : fret[i].electrons \in {1, 2}
        /\ InAufbauOrder(fret)
        /\ TotalElectrons(fret) = fargs.electronCount

\* What the code does: the same with the electrons capped at the 118 that
\* AUFBAU_ORDER has room for
C24_CodeValues ==
    GeneratedConfiguration =>
        /\ DistinctOrbitals(fret)
        /\ \A i \in 1..Len(fret) : fret[i].electrons \in {1, 2}
        /\ InAufbauOrder(fret)
        /\ TotalElectrons(fret) =
               IF fargs.electronCount < 118 THEN fargs.electronCount ELSE 118

\* 119 electrons asked for (Og-), 118 in the configuration
C24_Witness ==
    /\ GeneratedConfiguration
    /\ fargs.electronCount = 119
    /\ TotalElectrons(fret) = 118
    /\ Len(fret) = 59

\* C25: in the configuration returned no orbital holds 2 electrons while
\* another m value of the same subshell holds none.
C25_HundsRule ==
    GeneratedConfiguration =>
        \A i \in 1..Len(fret) :
            fret[i].electrons = 2 =>
                \A m \in (-fret[i].l)..fret[i].l :
                    \E j \in 1..Len(fret) :
                        /\ fret[j].n = fret[i].n
                        /\ fret[j].l = fret[i].l
                        /\ fret[j].m = m
                        /\ fret[j].electrons >= 1

\* What the code does: it pairs the electrons up from m = -l on, so an
\* orbital holds any only when every lower m of its subshell holds 2
C25_CodeValues ==
    GeneratedConfiguration =>
        \A i, j \in 1..Len(fret) :
            (fret[j].n = fret[i].n /\ fret[j].l = fret[i].l /\ fret[j].m < fret[i].m)
                => fret[j].electrons = 2

\* Carbon: both 2p electrons in m = -1, none in m = 0 and m = 1
C25_Witness ==
    /\ GeneratedConfiguration
    /\ fargs.electronCount = 6
    /\ fret = <<[n |-> 1, l |-> 0, m |-> 0, electrons |-> 2],
                [n |-> 2, l |-> 0, m |-> 0, electrons |-> 2],
                [n |-> 2, l |-> 1, m |-> -1, electrons |-> 2]>>

(***************************************************************************)
(* SpecRenderer: one ElectronCloudRenderer, its methods called from        *)
(* outside in any order                                                    *)
(***************************************************************************)
\* Arrays the callers pass: what the app makes of 0, 1, 3 and 7 electrons,
\* and boron as elements.js lists it
RenderConfigurations ==
    {expandedConfigOf(generateElectronConfiguration(k)) : k \in {0, 1, 3, 7}}
        \cup {generateElectronConfiguration(5)}

RenderCharges == {R1, RInt(7)}

\* The sampleOrbital calls of one rendering that return no point: none, or
\* one of them
EmptiesOf(configuration) ==
    {{}} \cup {{<<kind, meshKey(configuration[i])>>} :
                  kind \in {"sphere", "cloud"}, i \in 1..Len(configuration)}

SettingsInputs ==
    {[opacity |-> Rat(1, 2)],
     [showSpheres |-> FALSE],
     [showCloud |-> TRUE],
     [density |-> RInt(2)],
     [density |-> Rat(51, 50), showSpheres |-> TRUE, showCloud |-> TRUE],
     [density |-> R1, showSpheres |-> FALSE, showCloud |-> TRUE],
     [density |-> R1, showSpheres |-> FALSE, showCloud |-> FALSE]}

RendererOnly == UNCHANGED <<atom, atomLog, legend, controls, OtherVars>>

CallRenderConfiguration ==
    /\ \E configuration \in RenderConfigurations, Z \in RenderCharges :
           \E empties \in EmptiesOf(configuration) :
               renderer' = renderConfiguration(settled(renderer), configuration, Z,
                                               empties)
    /\ RendererOnly

CallUpdateSettings ==
    /\ \E settings \in SettingsInputs :
           \E empties \in EmptiesOf(renderer.currentConfig.array) :
               renderer' = updateSettings(settled(renderer), settings, empties)
    /\ RendererOnly

CallClearAll ==
    /\ renderer' = clearAll(settled(renderer))
    /\ RendererOnly

CallSetOrbitalTypeVisibility ==
    /\ \E l \in 0..1, visible \in BOOLEAN :
           renderer' = setOrbitalTypeVisibility(settled(renderer), l, visible)
    /\ RendererOnly

NextRenderer ==
    \/ CallRenderConfiguration
    \/ CallUpdateSettings
    \/ CallClearAll
    \/ CallSetOrbitalTypeVisibility

SpecRenderer == InitFn /\ [][NextRenderer]_vars

(***************************************************************************)
(* Claims on ElectronCloudRenderer                                         *)
(***************************************************************************)
MapValues(map) == {map[k] : k \in DOMAIN map}

\* The keys of the orbitals of an array
KeysOf(configuration) == {meshKey(configuration[i]) : i \in 1..Len(configuration)}

\* Each key of the map has a mesh of its own, and the group shows these
\* meshes and no other
OneMeshPerKey(map, group) ==
    /\ \A k1, k2 \in DOMAIN map : map[k1] = map[k2] => k1 = k2
    /\ group.children = MapValues(map)

\* C27: after any renderConfiguration, updateSettings and clearAll calls,
\* sphere meshes exist only if showSpheres and cloud meshes only if
\* showCloud, each map holds one mesh per key and only keys of the current
\* configuration, and every mesh that was replaced or cleared is out of its
\* group and disposed.
C27_MeshesFollowModes ==
    /\ DOMAIN renderer.sphereMeshes # {} => renderer.showSpheres
    /\ DOMAIN renderer.cloudMeshes # {} => renderer.showCloud
    /\ OneMeshPerKey(renderer.sphereMeshes, renderer.sphereGroup)
    /\ OneMeshPerKey(renderer.cloudMeshes, renderer.cloudGroup)
    /\ DOMAIN renderer.sphereMeshes \subseteq KeysOf(renderer.currentConfig.array)
    /\ DOMAIN renderer.cloudMeshes \subseteq KeysOf(renderer.currentConfig.array)
    /\ \A id \in DOMAIN renderer.meshes :
           IF id \in MapValues(renderer.sphereMeshes) \cup MapValues(renderer.cloudMeshes)
           THEN ~renderer.meshes[id].disposed
           ELSE /\ renderer.meshes[id].disposed
                /\ id \notin renderer.sphereGroup.children
                /\ id \notin renderer.cloudGroup.children

\* The mode went from spheres to cloud with a configuration rendered: the
\* sphere meshes are disposed and gone, the cloud meshes are there
C27_Witness ==
    /\ ~renderer.showSpheres /\ renderer.showCloud
    /\ DOMAIN renderer.cloudMeshes # {}
    /\ DOMAIN renderer.sphereMeshes = {}
    /\ \E id \in DOMAIN renderer.meshes :
           /\ id.kind = "sphere"
           /\ renderer.meshes[id].disposed
           /\ id \notin renderer.sphereGroup.children

(***************************************************************************)
(* SpecApp: the app (main.js, unnamed/part_000) with its state, renderer,  *)
(* legend, controls and panel; each action is one user event with all it   *)
(* sets off.                                                               *)
(***************************************************************************)
MaxIonization == 1

\* The cells of the periodic table clicked
AppSymbols == {"H", "N"}

AppDensities == {R1, RInt(2)}

\* part_000 lines 115-122: the app's listener runs _updateVisualization on
\* each state it is called with
RECURSIVE appListened(_, _, _, _)
appListened(r, log, i, empties) ==
    IF i > Len(log) THEN r
    ELSE appListened(IF log[i].listener = "app"
                     THEN _updateVisualization(r, log[i].state, empties)
                     ELSE r,
                     log, i + 1, empties)

Constructed == atomLog.call.op # "new"

\* The sampleOrbital calls of one rendering by the app that return no point:
\* none, or one for the first orbital
AppEmptiesOf(configuration) ==
    EmptiesOf(IF configuration = <<>> THEN <<>> ELSE <<configuration[1]>>)

\* A change of the state made by the app or one of its parts, and the
\* rendering the app's listener does
AppChanged(st, op, arg) ==
    /\ AtomCalled(st, op, arg)
    /\ \E empties \in AppEmptiesOf(expandedConfigOf(getElectronConfiguration(st.atom))) :
           renderer' = appListened(settled(renderer), st.log, 1, empties)

\* An event that leaves the AtomState alone
AppEvent(op, arg) ==
    /\ atomLog' = [atomLog EXCEPT !.call = [op |-> op, arg |-> arg],
                                  !.before = atom, !.log = <<>>, !.warn = <<>>]
    /\ UNCHANGED atom

\* part_000 lines 29-51: the constructor; _initState subscribes the app,
\* _initUI makes the panel, which subscribes, and line 50 selects hydrogen
AppConstruct ==
    /\ ~Constructed
    /\ \E st \in {setElement([atom EXCEPT !.listeners = <<"app", "panel">>], "H")} :
           AppChanged(st, "setElement", <<"H">>)
    /\ UNCHANGED <<legend, controls, OtherVars>>

\* part_000 lines 132-134: a click on a cell of the periodic table
SelectElement ==
    /\ Constructed
    /\ \E symbol \in AppSymbols :
           \E st \in {setElement(atom, symbol)} :
               AppChanged(st, "setElement", <<symbol>>)
    /\ UNCHANGED <<legend, controls, OtherVars>>

\* ElementInfoPanel.js lines 76-91: the panel's two ionization buttons
PanelIonize ==
    /\ Constructed
    /\ \E delta \in {-1, 1} :
           /\ Abs(atom.ionizationState[1] + delta) <= MaxIonization
           /\ \E st \in {setIonization(atom, RAdd(atom.ionizationState, RInt(delta)))} :
                  AppChanged(st, "setIonization", <<atom.ionizationState[1] + delta>>)
    /\ UNCHANGED <<legend, controls, OtherVars>>

\* part_002 lines 33-46 and part_000 lines 142-144: a click on an item of
\* the legend
LegendClick ==
    /\ Constructed
    /\ \E orbital \in {"s", "p"} :
           /\ legend' = [legend EXCEPT ![orbital] = ~legend[orbital]]
           /\ renderer' = setOrbitalTypeVisibility(settled(renderer), legendL[orbital],
                                                   ~legend[orbital])
           /\ AppEvent("legend", <<orbital>>)
    /\ UNCHANGED <<controls, OtherVars>>

\* The controls tell the app their settings
ControlsChanged(settings, op) ==
    /\ controls' = settings
    /\ \E empties \in AppEmptiesOf(renderer.currentConfig.array) :
           renderer' = _onVisualizationSettingsChange(settled(renderer), settings, empties)
    /\ AppEvent(op, <<>>)

\* unnamed/part_001 lines 400-409: a click on one of the three mode buttons
ControlsMode ==
    /\ Constructed
    /\ \E mode \in {"spheres", "cloud", "both"} :
           ControlsChanged([controls EXCEPT !.showSpheres = mode \in {"spheres", "both"},
                                            !.showCloud = mode \in {"cloud", "both"}],
                           "mode")
    /\ UNCHANGED <<legend, OtherVars>>

\* The cloud-density slider moved (or another slider: the density as it was)
ControlsDensity ==
    /\ Constructed
    /\ \E value \in AppDensities :
           ControlsChanged([controls EXCEPT !.cloudDensity = value], "density")
    /\ UNCHANGED <<legend, OtherVars>>

NextApp ==
    \/ AppConstruct
    \/ SelectElement
    \/ PanelIonize
    \/ LegendClick
    \/ ControlsMode
    \/ ControlsDensity

SpecApp == InitFn /\ [][NextApp]_vars

(***************************************************************************)
(* Claims on the app                                                       *)
(***************************************************************************)
\* The array the renderer was last given
Expanded == renderer.currentConfig.array

\* The app has rendered the configuration of the current state
Visualized == Constructed /\ ~renderer.currentConfig.null

\* C26: the expanded configuration given to renderConfiguration has pairwise
\* distinct (n,l,m) and as many electrons as the state's configuration, and
\* in sphere mode each occupied orbital of the element has a mesh of its own
\* (unless its sampling returned no point).
C26_ExpandedDistinct ==
    Visualized =>
        /\ DistinctOrbitals(Expanded)
        /\ TotalElectrons(Expanded) = TotalElectrons(getElectronConfiguration(atom))
        /\ renderer.showSpheres =>
               Cardinality(DOMAIN renderer.sphereMeshes)
                   >= Len(getElectronConfiguration(atom)) - 1

\* What the code does: each entry of the state's configuration, which is one
\* orbital already, becomes one entry with the same n, l and electrons and
\* m = -l, so the orbitals of a subshell share one key and one mesh
C26_CodeValues ==
    Visualized =>
        /\ Len(Expanded) = Len(getElectronConfiguration(atom))
        /\ \A i \in 1..Len(Expanded) :
               /\ Expanded[i].n = getElectronConfiguration(atom)[i].n
               /\ Expanded[i].l = getElectronConfiguration(atom)[i].l
               /\ Expanded[i].electrons = getElectronConfiguration(atom)[i].electrons
               /\ Expanded[i].m = -Expanded[i].l
        /\ TotalElectrons(Expanded) = TotalElectrons(getElectronConfiguration(atom))
        /\ \A key \in DOMAIN renderer.sphereMeshes \cup DOMAIN renderer.cloudMeshes :
               key[3] = -key[2]

\* Nitrogen: 2p m=-1 twice in the array, and three meshes for four orbitals
C26_Witness ==
    /\ Visualized
    /\ atom.currentSymbol = "N" /\ atom.ionizationState = R0
    /\ Expanded = <<[n |-> 1, l |-> 0, m |-> 0, electrons |-> 2],
                    [n |-> 2, l |-> 0, m |-> 0, electrons |-> 2],
                    [n |-> 2, l |-> 1, m |-> -1, electrons |-> 2],
                    [n |-> 2, l |-> 1, m |-> -1, electrons |-> 1]>>
    /\ DOMAIN renderer.sphereMeshes = {<<1, 0, 0>>, <<2, 0, 0>>, <<2, 1, -1>>}

\* The letter of the legend for an orbital type
LetterOf(l) == CHOOSE orbital \in DOMAIN legendL : legendL[orbital] = l

\* The meshes the renderer holds in its maps
HeldByMaps == MapValues(renderer.sphereMeshes) \cup MapValues(renderer.cloudMeshes)

\* C28: while an orbital type is hidden in the legend every mesh of that type
\* the renderer holds is invisible, also after an element change, an
\* ionization change or a settings change rendered the configuration again.
C28_HiddenStaysHidden ==
    \A id \in HeldByMaps :
        ~legend[LetterOf(orbitalL(id.key))] => ~renderer.meshes[id].visible

\* What the code does: a click on the legend sets the meshes of the type
\* that exist then; a mesh is invisible only if its type is hidden, and every
\* rendering makes all meshes anew, visible
C28_CodeValues ==
    /\ \A id \in HeldByMaps :
           ~renderer.meshes[id].visible => ~legend[LetterOf(orbitalL(id.key))]
    /\ atomLog.call.op \in {"setElement", "setIonization"} =>
           \A id \in HeldByMaps : renderer.meshes[id].visible
    /\ atomLog.call.op = "legend" =>
           \A id \in HeldByMaps :
               orbitalL(id.key) = legendL[atomLog.call.arg[1]] =>
                   renderer.meshes[id].visible = legend[atomLog.call.arg[1]]

\* s orbitals hidden in the legend, nitrogen selected afterwards: its s
\* meshes are visible
C28_Witness ==
    /\ ~legend.s
    /\ atomLog.call.op = "setElement" /\ atomLog.call.arg = <<"N">>
    /\ <<1, 0, 0>> \in DOMAIN renderer.sphereMeshes
    /\ renderer.meshes[renderer.sphereMeshes[<<1, 0, 0>>]].visible

(***************************************************************************)
(* SpecBall: sampleOrbital with candidates out to nine tenths of the       *)
(* sampling radius, in directions off the axes                             *)
(***************************************************************************)
MaxBallPoints == 1

\* The Math.random() values of a candidate and of its rejection test.  Far
\* out the test is the one with Math.random() = 0, which passes wherever the
\* density is positive.
BallTries ==
    {[u |-> Rat(729, 1000), ut |-> Rat(1, 2), up |-> R0, ua |-> R0],
     [u |-> Rat(729, 1000), ut |-> Rat(4, 5), up |-> Rat(1, 4), ua |-> R0],
     [u |-> Rat(1, 8), ut |-> Rat(1, 10), up |-> Rat(1, 2), ua |-> R0],
     [u |-> Rat(1, 64), ut |-> Rat(1, 2), up |-> Rat(1, 4), ua |-> Rat(1, 2)]}

NextBall ==
    \/ \E o \in Orbitals, np \in 0..MaxBallPoints : Begin(o, np)
    \/ \E draws \in [1..EstSamples -> EstDraws] : Estimate(draws)
    \/ \E t \in BallTries : Attempt([u |-> t.u, ut |-> t.ut, up |-> t.up], t.ua)
    \/ LoopExit
    \/ Return

SpecBall == Init /\ [][NextBall]_vars

\* x^2 + y^2 + z^2 of the i-th point of a buffer
NormSq(buf, i) ==
    RAdd(RAdd(RMul(buf[3 * i - 2], buf[3 * i - 2]), RMul(buf[3 * i - 1], buf[3 * i - 1])),
         RMul(buf[3 * i], buf[3 * i]))

\* The points of the buffer up to the write index pIndex lie within radius
\* 4 n^2 / Z of the origin
InsideBall(buf, pIndex, o) ==
    \A i \in 1..(pIndex \div 3) :
        ~RLess(RMul(Rat(4 * o.n * o.n, o.Z), Rat(4 * o.n * o.n, o.Z)), NormSq(buf, i))

\* C30: every point sampleOrbital has stored or returned lies within
\* 4 n^2 / Z of the origin, which is maxRadialExtent(n, l, Z); for valid
\* quantum numbers the most probable radius (n^2 - l(l+1)/2) / Z is
\* positive and 1.7 times it is below that extent.
C30_PointsInsideBall ==
    pc # "idle" =>
        /\ maxRadialExtent(orb.n, orb.l, orb.Z) = Rat(4 * orb.n * orb.n, orb.Z)
        /\ InsideBall(points, pointIndex, orb)
        /\ pc = "done" => InsideBall(returned, Len(returned), orb)
        /\ IsValid(orb) =>
               /\ mostProbableRadius(orb.n, orb.l, orb.Z)
                      = RDiv(RSub(RInt(orb.n * orb.n), Rat(orb.l * (orb.l + 1), 2)),
                             RInt(orb.Z))
               /\ RLess(R0, mostProbableRadius(orb.n, orb.l, orb.Z))
               /\ RLess(RMul(Rat(17, 10), mostProbableRadius(orb.n, orb.l, orb.Z)),
                        maxRadialExtent(orb.n, orb.l, orb.Z))

\* A 1s point returned from nine tenths of the sampling radius, off the axes
C30_Witness ==
    /\ pc = "done"
    /\ orb = Orbital(1, 0, 0, 1)
    /\ Len(returned) = 3
    /\ lastTry.u = Rat(729, 1000) /\ lastTry.ut = Rat(4, 5)
    /\ returned = <<R0, Rat(72, 25), Rat(54, 25)>>
    /\ NormSq(returned, 1) = RMul(Rat(18, 5), Rat(18, 5))

====
